---- MODULE Spec2Model ----
(***************************************************************************)
(* A model of TEcount.py (TEtools): the Double_dict interning table, the   *)
(* Rosette annotation table (load, per-sample counting, purge, write), the *)
(* SAM record classification of Count.__count and the module-level driver. *)
(*                                                                         *)
(* Python lists that the code indexes are functions on 0..n-1 (the        *)
(* source's indices), Python dicts are functions, and an uncaught Python   *)
(* exception is the variable failed taking the exception's name, after     *)
(* which the interpreter has terminated and no operation is enabled.       *)
(***************************************************************************)
EXTENDS Integers, Sequences, FiniteSets, TLC

VARIABLES
    table,       \* a stand-alone Double_dict
    returned,    \* history: the (item, key) pairs of the add calls on table, in order
    setitems,    \* history: number of __setitem__ calls on table
    args,        \* the inputs given so far: files' contents and arguments
    rosette,     \* the Rosette object
    stdout,      \* the lines printed
    failed,      \* "" or the name of the uncaught exception that ended the run
    count_out,   \* the count output file
    sirna_out,   \* the siRNA count output file
    pc,          \* where the caller of the Rosette object is
    op,          \* history: the last operation called, with its arguments
    calls,       \* history: number of method calls after the load
    purges,      \* history: number of purge calls
    contrib,     \* history: per variable, the sum of the amounts of the count calls
    contrib_si,  \* history: the same for the count_si calls
    counting,    \* the Count object (the driver's variable count)
    sample,      \* the driver's loop index i
    lines_read,  \* number of lines __count has read from the open SAM file
    last,        \* history: the last line __count has read and the call it made
    hits,        \* history: per sample and variable, the lines that led to a count call
    procs,       \* Count.procs, the registry of child processes (a list)
    child,       \* the child processes spawned by run_cmd, by invocation
    pipes,       \* the stdout and stderr pipes of each child: the lines in them
    queues,      \* the Queue q of each invocation of run_cmd
    captured,    \* the lists outs and errs of each invocation
    console,     \* what has been printed, in order
    tasks,       \* the three threads of each invocation: where each is
    main,        \* the main thread: where it is in run_cmd
    results,     \* history: the values returned by run_cmd, by invocation
    terminated,  \* "" or how the interpreter has terminated
    engine       \* the Count object's pipeline state and the commands it has issued

vars == <<table, returned, setitems, args, rosette, stdout, failed, count_out, sirna_out,
          pc, op, calls, purges, contrib, contrib_si, counting, sample,
          lines_read, last, hits, procs, child, pipes, queues, captured, console,
          tasks, main, results, terminated, engine>>

driverVars == <<counting, sample, lines_read, last, hits>>

coreVars == <<table, returned, setitems, args, rosette, stdout, failed, count_out, sirna_out,
              pc, op, calls, purges, contrib, contrib_si, counting, sample,
              lines_read, last, hits>>

runVars == <<procs, child, pipes, queues, captured, console, tasks, main, results,
             terminated>>

toolVars == <<runVars, engine>>

(***************************************************************************)
(* Bounds of the model.                                                    *)
(***************************************************************************)
\* number of Double_dict.add calls explored on a stand-alone table
MaxAdds == 4
\* number of Double_dict.__setitem__ calls explored on a stand-alone table
MaxSets == 1
\* rows of a rosette file
MaxRows == 3
\* samples of a run (sample_number is 1..MaxSamples: the driver rejects 0)
MaxSamples == 2
\* calls of the Rosette methods after the load
MaxCalls == 3
\* purges of one table
MaxPurges == 2
\* lines of a fasta file
MaxFastaLines == 1
\* invocations of run_cmd in one run of the program
MaxRuns == 2
\* lines the child processes of one run write to stdout, and to stderr
MaxOutLines == 2

MaxErrLines == 1
\* lines the children write without a newline at their end, in all
MaxOpenLines == 1

(***************************************************************************)
(* Generic helpers: Python list indexing and str() of an int.              *)
(***************************************************************************)
\* list[i] is defined for -len <= i < len (f is a list, a function on 0..len-1)
PyInRange(f, i) ==
    (i >= 0 /\ i < Cardinality(DOMAIN f)) \/ (i < 0 /\ -i <= Cardinality(DOMAIN f))

\* the position that list[i] denotes (a negative i counts from the end)
PyAt(f, i) == IF i >= 0 THEN i ELSE Cardinality(DOMAIN f) + i

Digits == <<"0", "1", "2", "3", "4", "5", "6", "7", "8", "9">>

RECURSIVE StrNat(_)
StrNat(n) == IF n < 10 THEN Digits[n + 1]
             ELSE StrNat(n \div 10) \o Digits[(n % 10) + 1]

\* str(n) for an int n
Str(n) == IF n < 0 THEN "-" \o StrNat(-n) ELSE StrNat(n)

(***************************************************************************)
(* Double_dict: forward_dict (key -> item) and reverse_dict (item -> key). *)
(***************************************************************************)
EmptyDD == [forward |-> <<>>, reverse |-> <<>>]

\* __len__
DDLen(d) == Cardinality(DOMAIN d.forward)

\* __contains__
DDContains(d, item) == item \in DOMAIN d.reverse

\* __setitem__ with an int key: forward_dict[key] = item; reverse_dict is
\* left as it is
DDSetForward(d, key, item) == [d EXCEPT !.forward = (key :> item) @@ @]

\* __setitem__ with any other key: reverse_dict[key] = item; forward_dict is
\* left as it is
DDSetReverse(d, key, item) == [d EXCEPT !.reverse = (key :> item) @@ @]

\* a faulty add: a value already present is given a fresh key again
DDAddAlwaysFresh(d, item) ==
    LET key == Cardinality(DOMAIN d.forward)
    IN  [dd  |-> [forward |-> (key :> item) @@ d.forward,
                  reverse |-> (item :> key) @@ d.reverse],
         key |-> key]

\* add: the new table and the returned key
DDAdd(d, item) ==
    IF item \in DOMAIN d.reverse
    THEN [dd |-> d, key |-> d.reverse[item]]
    ELSE LET key == Cardinality(DOMAIN d.forward)
         IN  [dd  |-> [forward |-> (key :> item) @@ d.forward,
                       reverse |-> (item :> key) @@ d.reverse],
              key |-> key]


(***************************************************************************)
(* Python lists with the source's 0-based indices: functions on 0..n-1.    *)
(***************************************************************************)
ZLen(f) == Cardinality(DOMAIN f)

ZAppend(f, x) == (ZLen(f) :> x) @@ f

\* the 0-based list holding the elements of the sequence s
Z(s) == [i \in 0 .. Len(s) - 1 |-> s[i + 1]]

\* [x] * n
ZRepeat(x, n) == [i \in 0 .. n - 1 |-> x]

\* Python's list order (lexicographic), used by sorted() on key vectors
RECURSIVE ZLessFrom(_, _, _)
ZLessFrom(a, b, i) ==
    IF i \notin DOMAIN b THEN FALSE
    ELSE IF i \notin DOMAIN a THEN TRUE
    ELSE IF a[i] # b[i] THEN a[i] < b[i]
    ELSE ZLessFrom(a, b, i + 1)

ZLess(a, b) == ZLessFrom(a, b, 0)

(***************************************************************************)
(* Rosette: the annotation table.  A rosette file is a sequence of rows,   *)
(* a row being the list line.split() of one line (empty for a blank line). *)
(***************************************************************************)
None == "None"

\* format_identifier / format_variable: str() of a token that is a str already
FormatIdentifier(identifier) == identifier

FormatVariable(variable) == variable

\* the object before __init__ has run
NoRosette ==
    [count_sirna |-> FALSE, count_sirna_file |-> None, sample_number |-> 0,
     count_file |-> None, current_sample |-> -1, count_column |-> 0,
     column_number |-> 0, TE |-> <<>>, TE_identifier |-> <<>>,
     TE_count_variable |-> <<>>, TE_order |-> <<>>, TE_count |-> <<>>,
     TE_count_total |-> <<>>, TE_count_valid |-> <<>>, purged |-> FALSE,
     sirna_count |-> <<>>, sirna_count_total |-> <<>>]

\* lines 241-245: the keys of the columns other than the count column
RECURSIVE AddOtherKeys(_, _, _, _)
AddOtherKeys(acc, line, i, r) ==
    IF i >= r.column_number - 1 \/ acc.exc # "" THEN acc
    ELSE IF i + 1 = r.count_column THEN AddOtherKeys(acc, line, i + 1, r)
    ELSE IF i + 1 \notin DOMAIN line THEN [acc EXCEPT !.exc = "IndexError"]
    ELSE LET a == DDAdd(acc.TE[i], FormatVariable(line[i + 1]))
         IN  AddOtherKeys([TE   |-> [acc.TE EXCEPT ![i] = a.dd],
                           keys |-> ZAppend(acc.keys, a.key),
                           exc  |-> ""], line, i + 1, r)

\* Rosette.add(line): the new object and the exception raised, if any
RosetteAdd(r, line) ==
    IF 0 \notin DOMAIN line
    THEN [rosette |-> r, exc |-> "IndexError"]
    ELSE IF r.count_column \notin DOMAIN r.TE \/ r.count_column \notin DOMAIN line
    THEN [rosette |-> r, exc |-> "IndexError"]
    ELSE
    LET TE_identifier == FormatIdentifier(line[0])
        first == DDAdd(r.TE[r.count_column], FormatVariable(line[r.count_column]))
        start == [TE   |-> [r.TE EXCEPT ![r.count_column] = first.dd],
                  keys |-> Z(<<first.key>>),
                  exc  |-> ""]
        rest  == IF r.column_number - 1 > 1
                 THEN AddOtherKeys(start, line, 0, r)
                 ELSE start
        count_variable == FormatVariable(line[r.count_column])
    IN  IF rest.exc # ""
        THEN [rosette |-> [r EXCEPT !.TE = rest.TE], exc |-> rest.exc]
        ELSE [rosette |->
                [r EXCEPT
                   !.TE = rest.TE,
                   !.TE_identifier = (TE_identifier :> rest.keys) @@ @,
                   !.TE_count_variable = (count_variable :> rest.keys) @@ @,
                   !.TE_order = IF count_variable \in DOMAIN r.TE_count_variable
                                THEN @ ELSE Append(@, count_variable),
                   !.TE_count = (count_variable :> ZRepeat(0, r.sample_number)) @@ @,
                   !.TE_count_total = (count_variable :> 0) @@ @,
                   !.TE_count_valid = (count_variable :> TRUE) @@ @,
                   !.sirna_count =
                       IF r.count_sirna
                       THEN (count_variable :> ZRepeat(0, r.sample_number)) @@ @
                       ELSE @,
                   !.sirna_count_total =
                       IF r.count_sirna THEN (count_variable :> 0) @@ @ ELSE @],
              exc |-> ""]

\* Rosette.read: rows i.. of the file, st = [rosette, out, exc]
RECURSIVE RosetteReadFrom(_, _, _)
RosetteReadFrom(st, file, i) ==
    IF i > Len(file) \/ st.exc # "" THEN st
    ELSE LET line == file[i]
             out1 == IF ZLen(line) # st.rosette.column_number
                     THEN Append(st.out, "line " \o Str(i) \o " has "
                                          \o Str(ZLen(line)) \o " rows")
                     ELSE st.out
             a    == RosetteAdd(st.rosette, line)
         IN  RosetteReadFrom([rosette |-> a.rosette, out |-> out1, exc |-> a.exc],
                             file, i + 1)

RosetteRead(r, file) == RosetteReadFrom([rosette |-> r, out |-> <<>>, exc |-> ""], file, 1)

\* a faulty line 181: only an index below 1 is replaced, 1 (the identifier column) is kept
CountColumnKeepsFirst(count_column) ==
    IF count_column <= 0 THEN 1 ELSE count_column - 1

\* lines 180-182: the index of the count column from the 1-based -column argument
CountColumn(count_column) ==
    IF count_column - 1 <= 0 THEN 1 ELSE count_column - 1

WrongColumnWarning ==
    "wrong column number, changing column to count to the                   first one."

\* Rosette.__init__(rosette_file, count_column, count_file, sample_number, count_sirna_file)
RosetteInit(rosette_file, count_column, count_file, sample_number, count_sirna_file) ==
    IF count_file = None
    THEN [rosette |-> [NoRosette EXCEPT
                         !.count_sirna = (count_sirna_file # None),
                         !.count_sirna_file = count_sirna_file,
                         !.sample_number = sample_number],
          out |-> <<"error: no count output file given">>,
          exc |-> "SystemExit"]
    ELSE
    LET cc == CountColumn(count_column)
        warn == IF count_column - 1 <= 0 THEN <<WrongColumnWarning>> ELSE <<>>
        column_number == IF Len(rosette_file) = 0 THEN 0 ELSE ZLen(rosette_file[1])
        nTE == 1 + (IF column_number - 1 > 0 THEN column_number - 1 ELSE 0)
        r0 == [NoRosette EXCEPT
                 !.count_sirna = (count_sirna_file # None),
                 !.count_sirna_file = count_sirna_file,
                 !.sample_number = sample_number,
                 !.count_file = count_file,
                 !.current_sample = -1,
                 !.count_column = cc,
                 !.column_number = column_number,
                 !.TE = ZRepeat(EmptyDD, nTE)]
        rd == RosetteRead(r0, rosette_file)
    IN  [rosette |-> rd.rosette, out |-> warn \o rd.out, exc |-> rd.exc]

NotFoundMessage(identifier) == identifier \o " not found in the Rosette file"

\* a faulty count: the identifier is looked up without the membership test
RosetteCountNoTest(r, identifier, count) ==
    LET TE_identifier == FormatIdentifier(identifier)
    IN  IF TE_identifier \in DOMAIN r.TE_identifier
        THEN LET keys == r.TE_identifier[TE_identifier]
                 count_variable == r.TE[r.count_column].forward[keys[0]]
                 vec == r.TE_count[count_variable]
             IN  IF ~PyInRange(vec, r.current_sample)
                 THEN [rosette |-> r, out |-> <<>>, exc |-> "IndexError"]
                 ELSE [rosette |->
                         [r EXCEPT
                            !.TE_count[count_variable][PyAt(vec, r.current_sample)] = @ + count,
                            !.TE_count_total[count_variable] = @ + count],
                       out |-> <<>>, exc |-> ""]
        ELSE [rosette |-> r, out |-> <<>>, exc |-> "KeyError"]

\* Rosette.count(identifier, count)
RosetteCount(r, identifier, count) ==
    LET TE_identifier == FormatIdentifier(identifier)
    IN  IF TE_identifier \in DOMAIN r.TE_identifier
        THEN LET keys == r.TE_identifier[TE_identifier]
                 count_variable == r.TE[r.count_column].forward[keys[0]]
                 vec == r.TE_count[count_variable]
             IN  IF ~PyInRange(vec, r.current_sample)
                 THEN [rosette |-> r, out |-> <<>>, exc |-> "IndexError"]
                 ELSE [rosette |->
                         [r EXCEPT
                            !.TE_count[count_variable][PyAt(vec, r.current_sample)] = @ + count,
                            !.TE_count_total[count_variable] = @ + count],
                       out |-> <<>>, exc |-> ""]
        ELSE [rosette |-> r, out |-> <<NotFoundMessage(identifier)>>, exc |-> ""]

\* a faulty count_si: the total of the variable is not updated
RosetteCountSiNoTotal(r, identifier, count) ==
    LET TE_identifier == FormatIdentifier(identifier)
    IN  IF TE_identifier \in DOMAIN r.TE_identifier
        THEN LET keys == r.TE_identifier[TE_identifier]
                 count_variable == r.TE[r.count_column].forward[keys[0]]
             IN  IF ~r.count_sirna
                 THEN [rosette |-> r, out |-> <<>>, exc |-> "AttributeError"]
                 ELSE IF ~PyInRange(r.sirna_count[count_variable], r.current_sample)
                 THEN [rosette |-> r, out |-> <<>>, exc |-> "IndexError"]
                 ELSE [rosette |->
                         [r EXCEPT
                            !.sirna_count[count_variable]
                                [PyAt(r.sirna_count[count_variable], r.current_sample)] = @ + count],
                       out |-> <<>>, exc |-> ""]
        ELSE [rosette |-> r, out |-> <<NotFoundMessage(identifier)>>, exc |-> ""]

\* Rosette.count_si(identifier, count)
RosetteCountSi(r, identifier, count) ==
    LET TE_identifier == FormatIdentifier(identifier)
    IN  IF TE_identifier \in DOMAIN r.TE_identifier
        THEN LET keys == r.TE_identifier[TE_identifier]
                 count_variable == r.TE[r.count_column].forward[keys[0]]
             IN  IF ~r.count_sirna
                 THEN [rosette |-> r, out |-> <<>>, exc |-> "AttributeError"]
                 ELSE IF ~PyInRange(r.sirna_count[count_variable], r.current_sample)
                 THEN [rosette |-> r, out |-> <<>>, exc |-> "IndexError"]
                 ELSE [rosette |->
                         [r EXCEPT
                            !.sirna_count[count_variable]
                                [PyAt(r.sirna_count[count_variable], r.current_sample)] = @ + count,
                            !.sirna_count_total[count_variable] = @ + count],
                       out |-> <<>>, exc |-> ""]
        ELSE [rosette |-> r, out |-> <<NotFoundMessage(identifier)>>, exc |-> ""]

CopyNotFoundMessage(identifier) ==
    identifier \o " copy name not found                   in the Rosette file"

\* Rosette.get_count_variable(identifier): the variable, or None with a printed line
GetCountVariable(r, identifier) ==
    LET TE_identifier == FormatIdentifier(identifier)
    IN  IF TE_identifier \in DOMAIN r.TE_identifier
        THEN [value |-> r.TE[r.count_column].forward[r.TE_identifier[TE_identifier][0]],
              out |-> <<>>]
        ELSE [value |-> None, out |-> <<CopyNotFoundMessage(TE_identifier)>>]

\* a faulty reset_count: the total count is reset with the sample's counter
ResetCountClearsTotal(r) ==
    LET cs == r.current_sample + 1
        r1 == [r EXCEPT !.current_sample = cs]
    IN  IF DOMAIN r.TE_count_variable = {}
        THEN [rosette |-> r1, exc |-> ""]
        ELSE IF cs >= r.sample_number
        THEN [rosette |-> r1, exc |-> "IndexError"]
        ELSE [rosette |->
                [r1 EXCEPT
                   !.TE_count = [item \in DOMAIN r.TE_count |->
                                    [r.TE_count[item] EXCEPT ![cs] = 0]],
                   !.TE_count_total = [item \in DOMAIN r.TE_count_total |-> 0]],
              exc |-> ""]

\* a faulty reset_count: the whole vector of counts is reset, not the new sample's slot
ResetCountClearsVector(r) ==
    LET cs == r.current_sample + 1
        r1 == [r EXCEPT !.current_sample = cs]
    IN  IF DOMAIN r.TE_count_variable = {}
        THEN [rosette |-> r1, exc |-> ""]
        ELSE IF cs >= r.sample_number
        THEN [rosette |-> r1, exc |-> "IndexError"]
        ELSE [rosette |->
                [r1 EXCEPT
                   !.TE_count = [item \in DOMAIN r.TE_count |->
                                    ZRepeat(0, r.sample_number)],
                   !.sirna_count = [item \in DOMAIN r.sirna_count |->
                                      ZRepeat(0, r.sample_number)]],
              exc |-> ""]

\* Rosette.reset_count()
ResetCount(r) ==
    LET cs == r.current_sample + 1
        r1 == [r EXCEPT !.current_sample = cs]
    IN  IF DOMAIN r.TE_count_variable = {}
        THEN [rosette |-> r1, exc |-> ""]
        ELSE IF cs >= r.sample_number
        THEN [rosette |-> r1, exc |-> "IndexError"]
        ELSE [rosette |->
                [r1 EXCEPT
                   !.TE_count = [item \in DOMAIN r.TE_count |->
                                    IF item \in DOMAIN r.TE_count_variable
                                    THEN [r.TE_count[item] EXCEPT ![cs] = 0]
                                    ELSE r.TE_count[item]],
                   !.sirna_count =
                       IF r.count_sirna
                       THEN [item \in DOMAIN r.sirna_count |->
                                IF item \in DOMAIN r.TE_count_variable
                                THEN [r.sirna_count[item] EXCEPT ![cs] = 0]
                                ELSE r.sirna_count[item]]
                       ELSE @],
              exc |-> ""]

(***************************************************************************)
(* A fasta file exists or not and has a sequence of lines; of a line the   *)
(* code reads its first character (first) and its first whitespace-        *)
(* delimited token without that character (rest, which may be empty).      *)
(***************************************************************************)
NoSuchFile == [exists |-> FALSE, lines |-> <<>>]

FastaFile(lines) == [exists |-> TRUE, lines |-> lines]

\* lines 323-328: st = [valid, out]
RECURSIVE PurgeFrom(_, _, _, _)
PurgeFrom(st, r, lines, i) ==
    IF i > Len(lines) THEN st
    ELSE LET line == lines[i]
         IN  IF line.first = ">"
             THEN LET g == GetCountVariable(r, line.rest)
                  IN  PurgeFrom([valid |-> IF g.value # None
                                           THEN (g.value :> TRUE) @@ st.valid
                                           ELSE st.valid,
                                 out   |-> st.out \o g.out],
                                r, lines, i + 1)
             ELSE PurgeFrom(st, r, lines, i + 1)

\* a faulty purge: the validity flags are not cleared before the file is read
PurgeKeepsValid(r, fasta_file) ==
    IF ~fasta_file.exists
    THEN [rosette |-> r, out |-> <<>>, exc |-> "FileNotFoundError"]
    ELSE LET st == PurgeFrom([valid |-> r.TE_count_valid, out |-> <<>>], r,
                             fasta_file.lines, 1)
         IN  [rosette |-> [r EXCEPT !.TE_count_valid = st.valid, !.purged = TRUE],
              out |-> st.out, exc |-> ""]

\* Rosette.purge(fasta_file)
Purge(r, fasta_file) ==
    LET allFalse == [key \in DOMAIN r.TE_count_valid |-> FALSE]
    IN  IF ~fasta_file.exists
        THEN [rosette |-> [r EXCEPT !.TE_count_valid = allFalse],
              out |-> <<>>, exc |-> "FileNotFoundError"]
        ELSE LET st == PurgeFrom([valid |-> allFalse, out |-> <<>>], r, fasta_file.lines, 1)
             IN  [rosette |-> [r EXCEPT !.TE_count_valid = st.valid, !.purged = TRUE],
                  out |-> st.out, exc |-> ""]

(***************************************************************************)
(* Rosette.write.  An output file is the sequence of the strings written   *)
(* to it, in order; its text is their concatenation.                       *)
(***************************************************************************)
\* sorted(): insert a variable behind every variable whose key vector is not greater
RECURSIVE InsertByKeys(_, _, _)
InsertByKeys(sorted, v, r) ==
    IF sorted = <<>> THEN <<v>>
    ELSE IF ZLess(r.TE_count_variable[v], r.TE_count_variable[Head(sorted)])
    THEN <<v>> \o sorted
    ELSE <<Head(sorted)>> \o InsertByKeys(Tail(sorted), v, r)

RECURSIVE SortByKeys(_, _)
SortByKeys(items, r) ==
    IF items = <<>> THEN <<>>
    ELSE InsertByKeys(SortByKeys(SubSeq(items, 1, Len(items) - 1), r),
                      items[Len(items)], r)

\* sorted(self.TE_count_variable, key=lambda key: self.TE_count_variable[key])
SortedVariables(r) == SortByKeys(r.TE_order, r)

\* lines 358-360: the other columns of a line, acc = [text, exc]
RECURSIVE WriteOtherColumns(_, _, _, _)
WriteOtherColumns(acc, r, keys, i) ==
    IF i >= r.column_number - 1 \/ acc.exc # "" THEN acc
    ELSE IF i + 1 = r.count_column THEN WriteOtherColumns(acc, r, keys, i + 1)
    ELSE IF i \notin DOMAIN keys THEN [acc EXCEPT !.exc = "IndexError"]
    ELSE IF keys[i] \notin DOMAIN r.TE[i].forward THEN [acc EXCEPT !.exc = "KeyError"]
    ELSE WriteOtherColumns([text |-> Append(acc.text, r.TE[i].forward[keys[i]] \o " "),
                            exc  |-> ""], r, keys, i + 1)

\* for count in counts: write(str(count)+' ')
RECURSIVE WriteCounts(_, _)
WriteCounts(counts, i) ==
    IF i \notin DOMAIN counts THEN <<>>
    ELSE <<Str(counts[i]) \o " ">> \o WriteCounts(counts, i + 1)

\* lines 335-351 / 355-366: the strings written for one variable
WriteItem(r, item) ==
    LET keys == r.TE_count_variable[item]
        name == <<r.TE[r.count_column].forward[keys[0]] \o " ">>
        cols == WriteOtherColumns([text |-> name, exc |-> ""], r, keys, 0)
    IN  IF cols.exc # ""
        THEN [count |-> cols.text, sirna |-> IF r.count_sirna THEN cols.text ELSE <<>>,
              exc |-> cols.exc]
        ELSE [count |-> cols.text \o WriteCounts(r.TE_count[item], 0)
                          \o <<Str(r.TE_count_total[item]), "\n">>,
              sirna |-> IF r.count_sirna
                        THEN cols.text \o WriteCounts(r.sirna_count[item], 0)
                               \o <<Str(r.sirna_count_total[item]), "\n">>
                        ELSE <<>>,
              exc |-> ""]

\* the loop over the sorted variables, st = [count, sirna, exc]
RECURSIVE WriteFrom(_, _, _, _)
WriteFrom(st, r, items, i) ==
    IF i > Len(items) \/ st.exc # "" THEN st
    ELSE IF ~r.TE_count_valid[items[i]] THEN WriteFrom(st, r, items, i + 1)
    ELSE LET w == WriteItem(r, items[i])
         IN  WriteFrom([count |-> st.count \o w.count,
                        sirna |-> st.sirna \o w.sirna,
                        exc   |-> w.exc], r, items, i + 1)

\* Rosette.write(): the strings written to the count file and to the siRNA file
Write(r) == WriteFrom([count |-> <<>>, sirna |-> <<>>, exc |-> ""], r, SortedVariables(r), 1)

(***************************************************************************)
(* Inputs.                                                                 *)
(***************************************************************************)
Items == {"a", "b", "c"}

\* the int keys given to __setitem__, and the numbers it assigns to an item
SetKeys == {0, 1, 5}

\* the sequences of at most n elements of S
SeqUpTo(S, n) == UNION {[1 .. m -> S] : m \in 0 .. n}

\* rows of three columns: identifier, then two attribute columns whose values overlap
GoodRows == {Z(<<"t1", "A", "B">>), Z(<<"t2", "A", "C">>),
             Z(<<"t2", "C", "A">>), Z(<<"t3", "B", "A">>)}

\* a blank line, a row with a column missing, a row with a column too many
RaggedRows == {<<>>, Z(<<"t3", "B">>), Z(<<"t3", "B", "A", "C">>)}

TableFiles == SeqUpTo(GoodRows \cup RaggedRows, MaxRows)

\* the rosette files of the counting interface: well-formed rows, no row twice
CountingFiles ==
    {f \in SeqUpTo({Z(<<"t1", "A", "B">>), Z(<<"t2", "A", "C">>), Z(<<"t3", "B", "A">>)},
                   MaxRows - 1) : \A i, j \in DOMAIN f : i # j => f[i] # f[j]}

\* the -column argument
ColumnArgs == -1 .. 3

SampleNumbers == 1 .. MaxSamples

CountFileArgs == {None, "counts.txt"}

SirnaFileArgs == {None, "sirna.txt"}

\* identifiers of alignment records ("zz" is in no rosette file)
CallIds == {"t1", "t3", "zz"}

Amounts == {1, 2}

FastaLines == {[first |-> ">", rest |-> "t1"], [first |-> ">", rest |-> "t3"],
               [first |-> ">", rest |-> "zz"], [first |-> ">", rest |-> ""],
               [first |-> "A", rest |-> "CGT"]}

FastaFiles == {FastaFile(l) : l \in SeqUpTo(FastaLines, MaxFastaLines)} \cup {NoSuchFile}

AllValues == {"A", "B", "C", "t1", "t2", "t3", "LINE1", "SINE1", "c1", "c2", "c3", "s1"}

(***************************************************************************)
(* What the inputs say, read off the files (not off the Rosette object).   *)
(***************************************************************************)
\* the identifiers of the rows of a file
FileIds(file) == {file[i][0] : i \in {j \in 1 .. Len(file) : 0 \in DOMAIN file[j]}}

\* the last row of the file with this identifier (a later row overwrites)
LastRowOf(file, id) ==
    file[CHOOSE i \in 1 .. Len(file) :
            /\ 0 \in DOMAIN file[i] /\ file[i][0] = id
            /\ \A j \in i + 1 .. Len(file) : ~(0 \in DOMAIN file[j] /\ file[j][0] = id)]

\* the grouping variable of an identifier, col being the grouping column's index
GroupOf(file, col, id) == LastRowOf(file, id)[col]

(***************************************************************************)
(* Initial state: the program has started (TEcount.ini was there or has    *)
(* been written), empty table, nothing loaded, no output file.             *)
(***************************************************************************)
NoOp == [name |-> "", identifier |-> "", count |-> 0]

\* a command-line value: the text given, or the parser's default (an int)
Given(text) == [given |-> TRUE, text |-> text, value |-> 0]

Default(value) == [given |-> FALSE, text |-> "", value |-> value]

\* the defaults of -MAPQ, -sirna_size and -thread
DefaultMapq == 255

DefaultSirnaSize == 21

DefaultThread == 3

NoArgs == [rosette_file |-> <<>>, count_column |-> 0, count_file |-> None,
           count_sirna_file |-> None, sample_number |-> 0, fasta_file |-> NoSuchFile,
           mapq |-> Default(DefaultMapq), sirna_size |-> Default(DefaultSirnaSize),
           thread |-> Default(DefaultThread)]

NoCount == [max_mapq |-> 0, sirna_size |-> ""]

\* a line of a SAM file: its first character, the number of fields of
\* line.split() and the fields the code reads (line[2], line[4], line[9])
SamLine(first, nfields, rname, mapq, seq) ==
    [first |-> first, nfields |-> nfields, rname |-> rname, mapq |-> mapq, seq |-> seq]

\* a reference name: whether its first character is '*', and the rest
RName(star, rest) == [star |-> star, rest |-> rest]

NoLine == SamLine("", 0, RName(FALSE, ""), "", "")

NoLast == [line |-> NoLine, call |-> "", sample |-> -1]

NoFile == [exists |-> FALSE, text |-> <<>>]

\* the invocations of run_cmd, numbered in call order
Runs == 1 .. MaxRuns

\* the two output streams of a child process
Streams == {"out", "err"}

\* a child process that has not been spawned
NoChild == [state |-> "none", returncode |-> 0, wrote |-> [out |-> <<>>, err |-> <<>>]]

\* what the queue of an invocation holds: a line, or the final None
NoneItem == [none |-> TRUE, stream |-> "", k |-> 0, text |-> <<>>]

\* the threads of an invocation before it has started them
NoTasks == [out |-> "none", err |-> "none", writer |-> "none",
            held |-> [out |-> NoneItem, err |-> NoneItem, writer |-> NoneItem]]

NoMain == [pc |-> "idle", i |-> -1, run |-> 0, passthrough |-> TRUE]

\* the command line without -RNA, -RNApair, -QC and -bowtie2: SAM files only
NoOptions == [sam_files |-> TRUE, fastq_files |-> FALSE, fastq_pair_files |-> FALSE,
              quality_control |-> FALSE, bowtie2 |-> FALSE]

\* the Count object's fields after Count.__init__ (index_build, index_file,
\* and the fields the from_ methods set), the options of the command line,
\* the files of the current sample that exist, the commands given to
\* run_cmd so far, the command the caller has put together, the queue of
\* every invocation of run_cmd, and the lines the running child has written
\* (written: the lines of all children, counted)
NoEngine == [options |-> NoOptions, index_build |-> FALSE, index_file |-> None,
             fastq_file |-> None, fastq_pair_file |-> None, paired |-> FALSE,
             sam_file |-> None, paired_file |-> None, files |-> {},
             commands |-> <<>>, command |-> None, queues |-> <<>>,
             wrote |-> [out |-> <<>>, err |-> <<>>], written |-> 0,
             partial |-> "", printing |-> {}, after |-> [pc |-> "", exc |-> ""]]

\* printed when TEcount.ini is not next to the script
ConfigNotFoundMessage == "'TEcount.ini' file not found, writing default one."

Init ==
    /\ table = EmptyDD
    /\ returned = <<>>
    /\ setitems = 0
    /\ args = NoArgs
    /\ rosette = NoRosette
    /\ stdout = <<>>
    /\ failed = ""
    /\ count_out = NoFile
    /\ sirna_out = NoFile
    /\ pc = "start"
    /\ op = NoOp
    /\ calls = 0
    /\ purges = 0
    /\ contrib = [v \in AllValues |-> 0]
    /\ contrib_si = [v \in AllValues |-> 0]
    /\ counting = NoCount
    /\ sample = 0
    /\ lines_read = 0
    /\ last = NoLast
    /\ hits = [i \in 0 .. MaxSamples - 1 |-> [v \in AllValues |-> 0]]
    /\ procs = <<>>
    /\ child = [n \in Runs |-> NoChild]
    /\ pipes = [n \in Runs |-> [out |-> <<>>, err |-> <<>>]]
    /\ queues = [n \in Runs |-> <<>>]
    /\ captured = [n \in Runs |-> [out |-> <<>>, err |-> <<>>]]
    /\ console = <<>>
    /\ tasks = [n \in Runs |-> NoTasks]
    /\ main = NoMain
    /\ results = <<>>
    /\ terminated = ""
    /\ engine = NoEngine

\* the start of the program when TEcount.ini is not next to the script: the
\* message is printed and the default file is written, before anything else
\* (when the file is there, nothing is printed)
ConfigNotFound ==
    /\ Init
    /\ stdout' = <<ConfigNotFoundMessage>>
    /\ UNCHANGED <<table, returned, setitems, args, rosette, failed, count_out, sirna_out,
                   pc, op, calls, purges, contrib, contrib_si>>
    /\ UNCHANGED driverVars
    /\ UNCHANGED toolVars

(***************************************************************************)
(* The interning table alone.                                              *)
(***************************************************************************)
Add ==
    /\ Len(returned) < MaxAdds
    /\ \E item \in Items :
          LET a == DDAdd(table, item)
          IN  /\ table' = a.dd
              /\ returned' = Append(returned, [item |-> item, key |-> a.key])
    /\ UNCHANGED <<setitems, args, rosette, stdout, failed, count_out, sirna_out, pc,
                   op, calls, purges, contrib, contrib_si>>
    /\ UNCHANGED driverVars
    /\ UNCHANGED toolVars

\* table[key] = item, with an int key (an item is assigned to it) or a key
\* that is an item (a number is assigned to it)
SetItem ==
    /\ setitems < MaxSets
    /\ \/ \E key \in SetKeys, item \in Items : table' = DDSetForward(table, key, item)
       \/ \E key \in Items, item \in SetKeys : table' = DDSetReverse(table, key, item)
    /\ setitems' = setitems + 1
    /\ UNCHANGED <<returned, args, rosette, stdout, failed, count_out, sirna_out, pc,
                   op, calls, purges, contrib, contrib_si>>
    /\ UNCHANGED driverVars
    /\ UNCHANGED toolVars

SpecDD == Init /\ [][Add \/ SetItem \/ ConfigNotFound]_vars

(***************************************************************************)
(* The Rosette object and its callers.                                     *)
(***************************************************************************)
\* rosette = Rosette(rosette_file, count_column, count_file, sample_number, count_sirna_file)
LoadFrom(files, columns, count_files, next_pc) ==
    /\ pc = "start"
    /\ \E f \in files, c \in columns, k \in SampleNumbers,
          cf \in count_files, sf \in SirnaFileArgs :
          LET res == RosetteInit(f, c, cf, k, sf)
          IN  /\ args' = [args EXCEPT !.rosette_file = f, !.count_column = c,
                                      !.count_file = cf, !.count_sirna_file = sf,
                                      !.sample_number = k]
              /\ rosette' = res.rosette
              /\ stdout' = stdout \o res.out
              /\ failed' = res.exc
    /\ pc' = next_pc
    /\ op' = [NoOp EXCEPT !.name = "load"]
    /\ UNCHANGED <<table, returned, setitems, count_out, sirna_out, calls, purges,
                   contrib, contrib_si>>
    /\ UNCHANGED driverVars
    /\ UNCHANGED toolVars

Ready == pc = "loaded" /\ failed = ""

\* rosette.reset_count()
StartSample ==
    /\ Ready /\ calls < MaxCalls
    /\ LET res == ResetCount(rosette)
       IN  rosette' = res.rosette /\ failed' = res.exc
    /\ op' = [NoOp EXCEPT !.name = "reset_count"]
    /\ calls' = calls + 1
    /\ UNCHANGED <<table, returned, setitems, args, stdout, count_out, sirna_out, pc, purges,
                   contrib, contrib_si>>
    /\ UNCHANGED driverVars
    /\ UNCHANGED toolVars

\* the history of contributions after a count call with this identifier
Credit(c, identifier, count) ==
    IF identifier \in FileIds(args.rosette_file)
    THEN [c EXCEPT ![GroupOf(args.rosette_file, rosette.count_column, identifier)]
                       = @ + count]
    ELSE c

\* rosette.count(identifier, count)
CountCall ==
    /\ Ready /\ calls < MaxCalls
    /\ \E identifier \in CallIds, count \in Amounts :
          LET res == RosetteCount(rosette, identifier, count)
          IN  /\ rosette' = res.rosette
              /\ stdout' = stdout \o res.out
              /\ failed' = res.exc
              /\ op' = [name |-> "count", identifier |-> identifier, count |-> count]
              /\ contrib' = Credit(contrib, identifier, count)
    /\ calls' = calls + 1
    /\ UNCHANGED <<table, returned, setitems, args, count_out, sirna_out, pc, purges, contrib_si>>
    /\ UNCHANGED driverVars
    /\ UNCHANGED toolVars

\* rosette.count_si(identifier, count)
CountSiCall ==
    /\ Ready /\ calls < MaxCalls
    /\ \E identifier \in CallIds, count \in Amounts :
          LET res == RosetteCountSi(rosette, identifier, count)
          IN  /\ rosette' = res.rosette
              /\ stdout' = stdout \o res.out
              /\ failed' = res.exc
              /\ op' = [name |-> "count_si", identifier |-> identifier, count |-> count]
              /\ contrib_si' = Credit(contrib_si, identifier, count)
    /\ calls' = calls + 1
    /\ UNCHANGED <<table, returned, setitems, args, count_out, sirna_out, pc, purges, contrib>>
    /\ UNCHANGED driverVars
    /\ UNCHANGED toolVars

\* rosette.purge(fasta_file)
PurgeWith(files) ==
    /\ Ready
    /\ \E f \in files :
          LET res == Purge(rosette, f)
          IN  /\ rosette' = res.rosette
              /\ stdout' = stdout \o res.out
              /\ failed' = res.exc
              /\ args' = [args EXCEPT !.fasta_file = f]
    /\ op' = [NoOp EXCEPT !.name = "purge"]
    /\ UNCHANGED <<table, returned, setitems, count_out, sirna_out, pc, contrib, contrib_si>>
    /\ UNCHANGED driverVars
    /\ UNCHANGED toolVars

\* rosette.write()
WriteCall ==
    /\ Ready /\ op.name # "write"
    /\ LET w == Write(rosette)
       IN  /\ count_out' = [exists |-> TRUE, text |-> w.count]
           /\ sirna_out' = IF rosette.count_sirna
                           THEN [exists |-> TRUE, text |-> w.sirna]
                           ELSE sirna_out
           /\ failed' = w.exc
    /\ op' = [NoOp EXCEPT !.name = "write"]
    /\ UNCHANGED <<table, returned, setitems, args, rosette, stdout, pc, calls, purges,
                   contrib, contrib_si>>
    /\ UNCHANGED driverVars
    /\ UNCHANGED toolVars

\* the counting interface: a load, then any interleaving of the counting calls
Load == LoadFrom(CountingFiles, {2, 3}, {"counts.txt"}, "loaded")

PurgeCall ==
    /\ calls < MaxCalls
    /\ calls' = calls + 1
    /\ UNCHANGED purges
    /\ PurgeWith({FastaFile(<<>>), FastaFile(<<[first |-> ">", rest |-> "t1"]>>)})

Next == Load \/ StartSample \/ CountCall \/ CountSiCall \/ PurgeCall \/ ConfigNotFound

Spec == Init /\ [][Next]_vars

\* the table interface: a load of any file with any column, then purges and a write
LoadTable == LoadFrom(TableFiles, ColumnArgs, CountFileArgs, "loaded")

PurgeTable ==
    /\ purges < MaxPurges
    /\ purges' = purges + 1
    /\ UNCHANGED calls
    /\ PurgeWith(FastaFiles)

NextTable == LoadTable \/ PurgeTable \/ WriteCall \/ ConfigNotFound

SpecTable == Init /\ [][NextTable]_vars

\* the load alone
SpecLoad == Init /\ [][LoadTable \/ ConfigNotFound]_vars

(***************************************************************************)
(* Count: the classification of the lines of a SAM file.                   *)
(***************************************************************************)
\* int(s) of a string: the model's numeric strings are the single digits
IsInt(s) == \E n \in 0 .. 9 : Digits[n + 1] = s

PyInt(s) == CHOOSE n \in 0 .. 9 : Digits[n + 1] = s

\* int(a) of a command-line value
IntOfArg(a) == IF a.given THEN PyInt(a.text) ELSE a.value

\* str(line[2])
Name(t) == (IF t.star THEN "*" ELSE "") \o t.rest

NoCall == [call |-> "", identifier |-> "", exc |-> ""]

\* len(line) > 4 and line[2][0] != '*' and int(line[4]) <= self.max_mapq
Qualifies(c, line) ==
    IF ~(line.nfields > 4) THEN [value |-> FALSE, exc |-> ""]
    ELSE IF line.rname.star THEN [value |-> FALSE, exc |-> ""]
    ELSE IF ~IsInt(line.mapq) THEN [value |-> FALSE, exc |-> "ValueError"]
    ELSE [value |-> PyInt(line.mapq) <= c.max_mapq, exc |-> ""]

\* a faulty classification: the two routes of the siRNA mode exchanged
ClassifyRoutesSwapped(sirna, c, line) ==
    IF line.first = "@" THEN NoCall
    ELSE LET q == Qualifies(c, line)
         IN  IF q.exc # "" THEN [NoCall EXCEPT !.exc = q.exc]
             ELSE IF ~q.value THEN NoCall
             ELSE IF ~sirna
             THEN [call |-> "count", identifier |-> Name(line.rname), exc |-> ""]
             ELSE IF ~(line.nfields > 9) THEN [NoCall EXCEPT !.exc = "IndexError"]
             ELSE IF ~IsInt(c.sirna_size) THEN [NoCall EXCEPT !.exc = "ValueError"]
             ELSE IF Len(line.seq) = PyInt(c.sirna_size)
             THEN [call |-> "count", identifier |-> Name(line.rname), exc |-> ""]
             ELSE [call |-> "count_si", identifier |-> Name(line.rname), exc |-> ""]

\* the body of the loops of Count.__count: the call one line leads to
Classify(sirna, c, line) ==
    IF line.first = "@" THEN NoCall
    ELSE LET q == Qualifies(c, line)
         IN  IF q.exc # "" THEN [NoCall EXCEPT !.exc = q.exc]
             ELSE IF ~q.value THEN NoCall
             ELSE IF ~sirna
             THEN [call |-> "count", identifier |-> Name(line.rname), exc |-> ""]
             ELSE IF ~(line.nfields > 9) THEN [NoCall EXCEPT !.exc = "IndexError"]
             ELSE IF ~IsInt(c.sirna_size) THEN [NoCall EXCEPT !.exc = "ValueError"]
             ELSE IF Len(line.seq) # PyInt(c.sirna_size)
             THEN [call |-> "count", identifier |-> Name(line.rname), exc |-> ""]
             ELSE [call |-> "count_si", identifier |-> Name(line.rname), exc |-> ""]

\* one iteration of the loop: classify the line and make the call
CountLine(r, c, line) ==
    LET k == Classify(r.count_sirna, c, line)
    IN  IF k.call = "count" THEN RosetteCount(r, k.identifier, 1)
        ELSE IF k.call = "count_si" THEN RosetteCountSi(r, k.identifier, 1)
        ELSE [rosette |-> r, out |-> <<>>, exc |-> k.exc]

(***************************************************************************)
(* The module-level driver, run on SAM files.                              *)
(***************************************************************************)
\* lines of a SAM file read in one run
MaxSamLines == 2
\* lines read in one run of the end-to-end scenario
MaxScenarioLines == 8

TypeErrorOfConfig(a) == ~a.given

SampleNumberError == "error: need at least one sample to count something"

\* the arguments are parsed and put into config; sample_number is checked
D_ArgsWith(mapqs, sizes, threads, numbers, options) ==
    /\ pc = "start"
    /\ \E m \in mapqs, z \in sizes, t \in threads, k \in numbers :
          /\ args' = [args EXCEPT !.mapq = m, !.sirna_size = z, !.thread = t,
                                  !.sample_number = k]
          /\ IF TypeErrorOfConfig(z) \/ TypeErrorOfConfig(t)
             THEN failed' = "TypeError" /\ stdout' = stdout
             ELSE IF k = 0
             THEN failed' = "SystemExit" /\ stdout' = Append(stdout, SampleNumberError)
             ELSE failed' = "" /\ stdout' = stdout
    /\ \E o \in options : engine' = [engine EXCEPT !.options = o]
    /\ pc' = "d_rosette"
    /\ op' = [NoOp EXCEPT !.name = "args"]
    /\ UNCHANGED <<table, returned, setitems, rosette, count_out, sirna_out, calls, purges,
                   contrib, contrib_si>>
    /\ UNCHANGED driverVars
    /\ UNCHANGED runVars

\* the same for a command line with SAM files only
D_ArgsFrom(mapqs, sizes, threads, numbers) ==
    D_ArgsWith(mapqs, sizes, threads, numbers, {NoOptions})

\* rosette = Rosette(args.rosette_file, args.count_column, args.count_file,
\*                   sample_number, args.count_sirna_file)
D_RosetteFrom(files, columns, count_files) ==
    /\ pc = "d_rosette" /\ failed = ""
    /\ \E f \in files, c \in columns, cf \in count_files, sf \in SirnaFileArgs :
          LET res == RosetteInit(f, c, cf, args.sample_number, sf)
          IN  /\ args' = [args EXCEPT !.rosette_file = f, !.count_column = c,
                                      !.count_file = cf, !.count_sirna_file = sf]
              /\ rosette' = res.rosette
              /\ stdout' = Append(stdout, "loading rosette file...") \o res.out
              /\ failed' = res.exc
    /\ pc' = "d_count"
    /\ op' = [NoOp EXCEPT !.name = "load"]
    /\ UNCHANGED <<table, returned, setitems, count_out, sirna_out, calls, purges,
                   contrib, contrib_si>>
    /\ UNCHANGED driverVars
    /\ UNCHANGED toolVars

\* count = Count(config['programs'], rosette, args.mapq, args.bowtie2, args.fasta_file)
D_CountFrom(fastas) ==
    /\ pc = "d_count" /\ failed = ""
    /\ \E f \in fastas :
          LET res == Purge(rosette, f)
          IN  /\ args' = [args EXCEPT !.fasta_file = f]
              /\ counting' = [max_mapq |-> IntOfArg(args.mapq),
                              sirna_size |-> args.sirna_size.text]
              /\ rosette' = res.rosette
              /\ stdout' = Append(stdout, "loading rosette fasta file...") \o res.out
              /\ failed' = res.exc
    /\ pc' = "d_sample"
    /\ sample' = 0
    /\ op' = [NoOp EXCEPT !.name = "purge"]
    /\ purges' = purges + 1
    /\ UNCHANGED <<table, returned, setitems, count_out, sirna_out, calls, contrib, contrib_si,
                   lines_read, last, hits>>
    /\ UNCHANGED toolVars

SamFileName(i) == "sample" \o Str(i) \o ".sam"

\* one turn of the driver's loop with an existing SAM file, up to the open
\* of Count.__count: print, from_sam, rosette.reset_count()
D_FromSam ==
    /\ pc = "d_sample" /\ failed = ""
    /\ LET res == ResetCount(rosette)
       IN  /\ rosette' = res.rosette
           /\ failed' = res.exc
    /\ stdout' = Append(stdout, "counting " \o SamFileName(sample) \o "...")
    /\ pc' = "d_lines"
    /\ op' = [NoOp EXCEPT !.name = "reset_count"]
    /\ last' = NoLast
    /\ UNCHANGED <<table, returned, setitems, args, count_out, sirna_out, calls, purges,
                   contrib, contrib_si, counting, sample, lines_read, hits>>
    /\ UNCHANGED toolVars

\* one turn of the driver's loop when args.sam_files[i] is not a file: the
\* other branch subscripts args.fastq_files, which is None
D_NoSam ==
    /\ pc = "d_sample" /\ failed = ""
    /\ failed' = "TypeError"
    /\ op' = [NoOp EXCEPT !.name = "fastq"]
    /\ UNCHANGED <<table, returned, setitems, args, rosette, stdout, count_out, sirna_out, pc,
                   calls, purges, contrib, contrib_si>>
    /\ UNCHANGED driverVars
    /\ UNCHANGED toolVars

\* the history of the contributions after the call a line led to
CreditLine(c, name, k) ==
    IF k.call = name /\ k.exc = "" THEN Credit(c, k.identifier, 1) ELSE c

\* one iteration of the loop of Count.__count
D_LineFrom(lines, max_lines) ==
    /\ pc = "d_lines" /\ failed = ""
    /\ lines_read < max_lines
    /\ \E line \in lines :
          LET k == Classify(rosette.count_sirna, counting, line)
              res == CountLine(rosette, counting, line)
          IN  /\ rosette' = res.rosette
              /\ stdout' = stdout \o res.out
              /\ failed' = res.exc
              /\ last' = [line |-> line, call |-> IF res.exc = "" THEN k.call ELSE "",
                          sample |-> sample]
              /\ op' = [name |-> "line", identifier |-> k.identifier, count |-> 1]
              /\ contrib' = CreditLine(contrib, "count", [k EXCEPT !.exc = res.exc])
              /\ contrib_si' = CreditLine(contrib_si, "count_si", [k EXCEPT !.exc = res.exc])
              /\ hits' = [hits EXCEPT ![sample] =
                                CreditLine(@, "count", [k EXCEPT !.exc = res.exc])]
    /\ lines_read' = lines_read + 1
    /\ UNCHANGED <<table, returned, setitems, args, count_out, sirna_out, pc, calls, purges,
                   counting, sample>>
    /\ UNCHANGED toolVars

\* a faulty end of file: the loop is left after the first sample
D_EndOfFileLeavesLoop ==
    /\ pc = "d_lines" /\ failed = ""
    /\ sample' = sample + 1
    /\ pc' = "d_write"
    /\ op' = [NoOp EXCEPT !.name = "eof"]
    /\ UNCHANGED <<table, returned, setitems, args, rosette, stdout, failed, count_out, sirna_out,
                   calls, purges, contrib, contrib_si, counting, lines_read, last, hits>>
    /\ UNCHANGED toolVars

\* the end of the SAM file: from_sam returns to the next turn of the loop, or
\* to the end of the loop
D_EndOfFile ==
    /\ pc = "d_lines" /\ failed = ""
    /\ sample' = sample + 1
    /\ pc' = IF sample + 1 < args.sample_number THEN "d_sample" ELSE "d_write"
    /\ op' = [NoOp EXCEPT !.name = "eof"]
    /\ UNCHANGED <<table, returned, setitems, args, rosette, stdout, failed, count_out, sirna_out,
                   calls, purges, contrib, contrib_si, counting, lines_read, last, hits>>
    /\ UNCHANGED toolVars

\* count.write(), the last statement of the program
D_Write ==
    /\ pc = "d_write" /\ failed = ""
    /\ LET w == Write(rosette)
       IN  /\ count_out' = [exists |-> TRUE, text |-> w.count]
           /\ sirna_out' = IF rosette.count_sirna
                           THEN [exists |-> TRUE, text |-> w.sirna]
                           ELSE sirna_out
           /\ failed' = w.exc
    /\ pc' = "done"
    /\ op' = [NoOp EXCEPT !.name = "write"]
    /\ UNCHANGED <<table, returned, setitems, args, rosette, stdout, calls, purges,
                   contrib, contrib_si>>
    /\ UNCHANGED driverVars
    /\ UNCHANGED toolVars

\* the inputs of the driver
MapqArgs == {Given("1"), Default(DefaultMapq)}

SirnaSizeArgs == {Given("2"), Given("3"), Default(DefaultSirnaSize)}

ThreadArgs == {Given("1"), Default(DefaultThread)}

DriverFiles == {<<Z(<<"t1", "A", "B">>), Z(<<"t3", "B", "A">>)>>}

DriverFastas == {NoSuchFile, FastaFile(<<>>), FastaFile(<<[first |-> ">", rest |-> "t1"]>>)}

RNames == {RName(FALSE, "t1"), RName(FALSE, "zz"), RName(TRUE, ""), RName(TRUE, "t1")}

SamLines ==
    {SamLine("r", 11, n, q, "AC") : n \in RNames, q \in {"1", "2"}}
    \cup {SamLine("r", 11, RName(FALSE, "t1"), "1", "ACG"),
          SamLine("r", 11, RName(FALSE, "t1"), "0", "AC"),
          SamLine("r", 11, RName(FALSE, "t1"), "x", "AC"),
          SamLine("r", 5, RName(FALSE, "t1"), "1", ""),
          SamLine("r", 4, RName(FALSE, "t1"), "", ""),
          SamLine("@", 3, RName(FALSE, "t1"), "", ""),
          SamLine("\n", 0, RName(FALSE, ""), "", "")}

D_Args == D_ArgsFrom(MapqArgs, SirnaSizeArgs, ThreadArgs, 0 .. MaxSamples)

D_Rosette == D_RosetteFrom(DriverFiles, {2}, {"counts.txt"})

D_Count == D_CountFrom(DriverFastas)

D_Line == D_LineFrom(SamLines, MaxSamLines)

NextDriver ==
    D_Args \/ D_Rosette \/ D_Count \/ D_FromSam \/ D_NoSam \/ D_Line \/ D_EndOfFile
        \/ D_Write \/ ConfigNotFound

SpecDriver == Init /\ [][NextDriver]_vars

\* the end-to-end scenario: three copies of LINE1, one of SINE1
ScenarioFile == <<Z(<<"c1", "LINE1">>), Z(<<"c2", "LINE1">>), Z(<<"c3", "LINE1">>),
                  Z(<<"s1", "SINE1">>)>>

ScenarioFasta == FastaFile(<<[first |-> ">", rest |-> "c2"]>>)

ScenarioLines ==
    {SamLine("r", 11, RName(FALSE, n), "0", "AC") : n \in {"c1", "c2", "c3", "s1"}}
    \cup {SamLine("r", 11, RName(TRUE, ""), "0", "AC"), SamLine("@", 3, RName(FALSE, ""), "", "")}

S_Args == D_ArgsFrom({Default(DefaultMapq)},
                     {Given("2"), Given("3"), Default(DefaultSirnaSize)},
                     {Given("1")}, {1, 2})

S_Rosette == D_RosetteFrom({ScenarioFile}, {2}, {"counts.txt"})

S_Count == D_CountFrom({ScenarioFasta})

S_Line == D_LineFrom(ScenarioLines, MaxScenarioLines)

NextScenario ==
    S_Args \/ S_Rosette \/ S_Count \/ D_FromSam \/ D_NoSam \/ S_Line \/ D_EndOfFile
        \/ D_Write \/ ConfigNotFound

SpecScenario == Init /\ [][NextScenario]_vars

(***************************************************************************)
(* run_cmd: the supervisor of one child process, its two reader threads    *)
(* and its writer thread.  A line is the sequence of its characters; the   *)
(* fields stream and k of a line (the k-th line the child wrote to that    *)
(* stream) are history.                                                    *)
(***************************************************************************)
ZPop(f) == [j \in 0 .. ZLen(f) - 2 |-> f[j]]

Letter(s) == IF s = "out" THEN "o" ELSE "e"

MaxLinesOf(s) == IF s = "out" THEN MaxOutLines ELSE MaxErrLines

\* the k-th line a child writes to a stream, with or without its newline
ChildLine(s, k, nl) ==
    [none |-> FALSE, stream |-> s, k |-> k,
     text |-> <<Letter(s), Str(k)>> \o (IF nl THEN <<"\n">> ELSE <<>>)]

EndsWithNewline(line) == Len(line.text) > 0 /\ line.text[Len(line.text)] = "\n"

\* line[:-1]
AllButLast(text) == SubSeq(text, 1, Len(text) - 1)

\* sep.join(lines), as one text
RECURSIVE Join(_, _)
Join(lines, sep) ==
    IF lines = <<>> THEN <<>>
    ELSE IF Len(lines) = 1 THEN lines[1].text
    ELSE lines[1].text \o sep \o Join(Tail(lines), sep)

\* Queue.get on a non-empty queue
QueueGet(q) == [item |-> Head(q), rest |-> Tail(q)]

InRegistry(n) == \E j \in DOMAIN procs : procs[j] = n

\* Count.kill_subprocesses, called at exit: proc.kill() for every proc of procs
KillSubprocesses(registry, children) ==
    [n \in DOMAIN children |->
        IF (\E j \in DOMAIN registry : registry[j] = n) /\ children[n].state = "running"
        THEN [children[n] EXCEPT !.state = "killed"]
        ELSE children[n]]

\* print(x) is two writes to sys.stdout: the text, then the newline.  A
\* write is the text written, whether it is the newline that ends a print,
\* and as history which print it belongs to (run, stream, k)
Command(n) ==
    [run |-> n, stream |-> "command", k |-> 0, text |-> <<"c", Str(n)>>, end |-> FALSE]

\* the second write of the print whose first write is w
EndOf(w) == [w EXCEPT !.text = <<"\n">>, !.end = TRUE]

\* run_cmd is called: outs, errs = None, None and print(command), up to
\* its first write
R_Call ==
    /\ terminated = "" /\ main.pc = "idle" /\ main.run < MaxRuns
    /\ \E passthrough \in BOOLEAN :
          LET n == main.run + 1
          IN  /\ console' = Append(console, Command(n))
              /\ main' = [pc |-> "print_end", i |-> -1, run |-> n,
                          passthrough |-> passthrough]
    /\ UNCHANGED <<procs, child, pipes, queues, captured, tasks, results, terminated>>
    /\ UNCHANGED <<coreVars, engine>>

\* print(command): its second write
R_PrintEnd ==
    /\ terminated = "" /\ main.pc = "print_end"
    /\ console' = Append(console, EndOf(Command(main.run)))
    /\ main' = [main EXCEPT !.pc = "popen"]
    /\ UNCHANGED <<procs, child, pipes, queues, captured, tasks, results, terminated>>
    /\ UNCHANGED <<coreVars, engine>>

\* Popen(shlex.split(command), ...): the child is forked and runs the
\* program of the command, or the program is not found and Popen raises
\* FileNotFoundError, which nothing catches: the main thread is over and the
\* atexit handler runs, the daemon threads of earlier invocations run on
R_Popen ==
    /\ terminated = "" /\ main.pc = "popen"
    /\ \E found \in BOOLEAN :
          IF found
          THEN /\ child' = [child EXCEPT ![main.run].state = "running"]
               /\ main' = [main EXCEPT !.pc = "append"]
          ELSE /\ child' = KillSubprocesses(procs, child)
               /\ main' = [main EXCEPT !.pc = "raise"]
    /\ UNCHANGED <<procs, pipes, queues, captured, console, tasks, results, terminated>>
    /\ UNCHANGED <<coreVars, engine>>

\* procs.append(the Popen object), i = len(procs)-1; with passthrough
\* the lists, the queue and the Thread objects are made
R_Append ==
    /\ terminated = "" /\ main.pc = "append"
    /\ procs' = ZAppend(procs, main.run)
    /\ main' = [main EXCEPT !.pc = IF main.passthrough THEN "start_out" ELSE "communicate",
                            !.i = ZLen(procs)]
    /\ UNCHANGED <<child, pipes, queues, captured, console, tasks, results, terminated>>
    /\ UNCHANGED <<coreVars, engine>>

\* for t in (stdout_thread, stderr_thread, writer_thread): t.daemon = True,
\* t.start(): one turn of the loop
R_Start ==
    /\ terminated = ""
    /\ LET n == main.run
       IN  \/ /\ main.pc = "start_out"
              /\ tasks' = [tasks EXCEPT ![n].out = "readline"]
              /\ main' = [main EXCEPT !.pc = "start_err"]
           \/ /\ main.pc = "start_err"
              /\ tasks' = [tasks EXCEPT ![n].err = "readline"]
              /\ main' = [main EXCEPT !.pc = "start_writer"]
           \/ /\ main.pc = "start_writer"
              /\ tasks' = [tasks EXCEPT ![n].writer = "get"]
              /\ main' = [main EXCEPT !.pc = "wait"]
    /\ UNCHANGED <<procs, child, pipes, queues, captured, console, results, terminated>>
    /\ UNCHANGED <<coreVars, engine>>

\* the lines written to a stream so far, by all children
RECURSIVE Written(_, _)
Written(s, n) == IF n = 0 THEN 0 ELSE Len(child[n].wrote[s]) + Written(s, n - 1)

\* the lines written without a newline so far, by all children
RECURSIVE OpenLines(_)
OpenLines(n) ==
    IF n = 0 THEN 0
    ELSE Cardinality({s \in Streams : child[n].wrote[s] # <<>>
                         /\ ~EndsWithNewline(child[n].wrote[s][Len(child[n].wrote[s])])})
         + OpenLines(n - 1)

\* the child writes its next line to one of its streams
C_Write ==
    /\ terminated = ""
    /\ \E n \in Runs, s \in Streams, nl \in BOOLEAN :
          LET wrote == child[n].wrote[s]
          IN  /\ child[n].state = "running"
              /\ Written(s, MaxRuns) < MaxLinesOf(s)
              /\ wrote # <<>> => EndsWithNewline(wrote[Len(wrote)])
              /\ ~nl => OpenLines(MaxRuns) < MaxOpenLines
              /\ LET line == ChildLine(s, Len(wrote) + 1, nl)
                 IN  /\ child' = [child EXCEPT ![n].wrote[s] = Append(@, line)]
                     /\ pipes' = [pipes EXCEPT ![n][s] = Append(@, line)]
    /\ UNCHANGED <<procs, queues, captured, console, tasks, main, results, terminated>>
    /\ UNCHANGED <<coreVars, engine>>

\* the child exits with some exit code; its ends of the pipes are closed
C_Exit ==
    /\ terminated = ""
    /\ \E n \in Runs, rc \in {0, 1} :
          /\ child[n].state = "running"
          /\ child' = [child EXCEPT ![n].state = "exited", ![n].returncode = rc]
    /\ UNCHANGED <<procs, pipes, queues, captured, console, tasks, main, results,
                   terminated>>
    /\ UNCHANGED <<coreVars, engine>>

\* read_output: pipe.readline() and the first func, q.put(line); at the end
\* of the stream, pipe.close() and the thread ends.  readline returns a line
\* without newline only at the end of the stream
T_Read ==
    /\ terminated = ""
    /\ \E n \in Runs, s \in Streams :
          /\ tasks[n][s] = "readline"
          /\ IF pipes[n][s] # <<>>
             THEN /\ EndsWithNewline(Head(pipes[n][s])) \/ child[n].state # "running"
                  /\ pipes' = [pipes EXCEPT ![n][s] = Tail(@)]
                  /\ queues' = [queues EXCEPT ![n] = Append(@, Head(pipes[n][s]))]
                  /\ tasks' = [tasks EXCEPT ![n][s] = "append",
                                            ![n].held[s] = Head(pipes[n][s])]
             ELSE /\ child[n].state # "running"
                  /\ tasks' = [tasks EXCEPT ![n][s] = "done"]
                  /\ UNCHANGED <<pipes, queues>>
    /\ UNCHANGED <<procs, child, captured, console, main, results, terminated>>
    /\ UNCHANGED <<coreVars, engine>>

\* read_output: the second func, outs.append(line) or errs.append(line)
T_Append ==
    /\ terminated = ""
    /\ \E n \in Runs, s \in Streams :
          /\ tasks[n][s] = "append"
          /\ captured' = [captured EXCEPT ![n][s] = Append(@, tasks[n].held[s])]
          /\ tasks' = [tasks EXCEPT ![n][s] = "readline"]
    /\ UNCHANGED <<procs, child, pipes, queues, console, main, results, terminated>>
    /\ UNCHANGED <<coreVars, engine>>

\* write_output: get(); None ends the thread
W_Get ==
    /\ terminated = ""
    /\ \E n \in Runs :
          /\ tasks[n].writer = "get"
          /\ queues[n] # <<>>
          /\ LET g == QueueGet(queues[n])
             IN  /\ queues' = [queues EXCEPT ![n] = g.rest]
                 /\ tasks' = [tasks EXCEPT ![n].writer = IF g.item.none THEN "done" ELSE "print",
                                           ![n].held.writer = g.item]
    /\ UNCHANGED <<procs, child, pipes, captured, console, main, results, terminated>>
    /\ UNCHANGED <<coreVars, engine>>

\* what print(line[:-1]) writes first
Echoed(n, line) ==
    [run |-> n, stream |-> line.stream, k |-> line.k, text |-> AllButLast(line.text),
     end |-> FALSE]

\* write_output: print(line[:-1]), its first write
W_Print ==
    /\ terminated = ""
    /\ \E n \in Runs :
          /\ tasks[n].writer = "print"
          /\ console' = Append(console, Echoed(n, tasks[n].held.writer))
          /\ tasks' = [tasks EXCEPT ![n].writer = "print_end"]
    /\ UNCHANGED <<procs, child, pipes, queues, captured, main, results, terminated>>
    /\ UNCHANGED <<coreVars, engine>>

\* write_output: print(line[:-1]), its second write
W_PrintEnd ==
    /\ terminated = ""
    /\ \E n \in Runs :
          /\ tasks[n].writer = "print_end"
          /\ console' = Append(console, EndOf(Echoed(n, tasks[n].held.writer)))
          /\ tasks' = [tasks EXCEPT ![n].writer = "get"]
    /\ UNCHANGED <<procs, child, pipes, queues, captured, main, results, terminated>>
    /\ UNCHANGED <<coreVars, engine>>

\* run_cmd: procs[i].wait() returns
R_Wait ==
    /\ terminated = "" /\ main.pc = "wait"
    /\ child[procs[main.i]].state # "running"
    /\ main' = [main EXCEPT !.pc = "join"]
    /\ UNCHANGED <<procs, child, pipes, queues, captured, console, tasks, results,
                   terminated>>
    /\ UNCHANGED <<coreVars, engine>>

\* a faulty join: q.put(None) without waiting for the reader threads
R_JoinNotWaiting ==
    /\ terminated = "" /\ main.pc = "join"
    /\ queues' = [queues EXCEPT ![procs[main.i]] = Append(@, NoneItem)]
    /\ main' = [main EXCEPT !.pc = "return"]
    /\ UNCHANGED <<procs, child, pipes, captured, console, tasks, results, terminated>>
    /\ UNCHANGED <<coreVars, engine>>

\* run_cmd with passthrough: both reader threads are joined, q.put(None)
R_Join ==
    /\ terminated = "" /\ main.pc = "join"
    /\ LET n == procs[main.i]
       IN  /\ tasks[n].out = "done" /\ tasks[n].err = "done"
           /\ queues' = [queues EXCEPT ![n] = Append(@, NoneItem)]
    /\ main' = [main EXCEPT !.pc = "return"]
    /\ UNCHANGED <<procs, child, pipes, captured, console, tasks, results, terminated>>
    /\ UNCHANGED <<coreVars, engine>>

\* run_cmd with passthrough, after q.put(None): the lists are joined with
\* ' ', rc = procs[i].returncode, procs.pop(), return (rc, (outs, errs))
R_Return ==
    /\ terminated = "" /\ main.pc = "return"
    /\ LET n == procs[main.i]
       IN  results' = Append(results, [run |-> n, rc |-> child[n].returncode,
                                       passthrough |-> TRUE,
                                       outs |-> Join(captured[n].out, <<" ">>),
                                       errs |-> Join(captured[n].err, <<" ">>)])
    /\ procs' = ZPop(procs)
    /\ main' = [main EXCEPT !.pc = "idle"]
    /\ UNCHANGED <<child, pipes, queues, captured, console, tasks, terminated>>
    /\ UNCHANGED <<coreVars, engine>>

\* run_cmd without passthrough: procs[i].communicate() reads both streams to
\* their end and waits for the child; then the return
R_Communicate ==
    /\ terminated = "" /\ main.pc = "communicate"
    /\ LET n == procs[main.i]
       IN  /\ child[n].state # "running"
           /\ results' = Append(results, [run |-> n, rc |-> child[n].returncode,
                                          passthrough |-> FALSE,
                                          outs |-> Join(pipes[n].out, <<>>),
                                          errs |-> Join(pipes[n].err, <<>>)])
           /\ pipes' = [pipes EXCEPT ![n] = [out |-> <<>>, err |-> <<>>]]
    /\ procs' = ZPop(procs)
    /\ main' = [main EXCEPT !.pc = "idle"]
    /\ UNCHANGED <<child, queues, captured, console, tasks, terminated>>
    /\ UNCHANGED <<coreVars, engine>>

\* the program comes to its end between two invocations of run_cmd: the
\* main thread is over and the atexit handler runs.  The daemon threads run
\* on until the interpreter has ended
M_Exit ==
    /\ terminated = "" /\ main.pc = "idle"
    /\ main' = [main EXCEPT !.pc = "exit"]
    /\ child' = KillSubprocesses(procs, child)
    /\ UNCHANGED <<procs, pipes, queues, captured, console, tasks, results, terminated>>
    /\ UNCHANGED <<coreVars, engine>>

\* an exception (a KeyboardInterrupt, say) ends the main thread inside
\* run_cmd: the atexit handler runs and kills the children of the registry.
\* The daemon threads run on (they read what is left in the pipes, queue it
\* and print it) until the interpreter has ended
M_Raise ==
    /\ terminated = "" /\ main.pc \notin {"idle", "exit", "raise"}
    /\ main' = [main EXCEPT !.pc = "raise"]
    /\ child' = KillSubprocesses(procs, child)
    /\ UNCHANGED <<procs, pipes, queues, captured, console, tasks, results, terminated>>
    /\ UNCHANGED <<coreVars, engine>>

\* the interpreter ends, at any time after the main thread is over: the
\* daemon threads end where they are
M_End ==
    /\ terminated = "" /\ main.pc \in {"exit", "raise"}
    /\ terminated' = IF main.pc = "exit" THEN "exit" ELSE "exception"
    /\ UNCHANGED <<procs, child, pipes, queues, captured, console, tasks, main, results>>
    /\ UNCHANGED <<coreVars, engine>>

\* a signal that Python does not handle (SIGTERM, the default of kill) ends
\* the process inside run_cmd or while the interpreter is ending: the
\* functions registered with atexit are not called (if they have not been
\* yet), the children are left as they are, the threads end
M_Signal ==
    /\ terminated = "" /\ main.pc # "idle"
    /\ terminated' = "signal"
    /\ UNCHANGED <<procs, child, pipes, queues, captured, console, tasks, main, results>>
    /\ UNCHANGED <<coreVars, engine>>

NextRun ==
    R_Call \/ R_PrintEnd \/ R_Popen \/ R_Append \/ R_Start \/ C_Write \/ C_Exit
        \/ T_Read \/ T_Append \/ W_Get \/ W_Print \/ W_PrintEnd \/ R_Wait \/ R_Join
        \/ R_Return \/ R_Communicate \/ M_Exit \/ M_Raise \/ M_End \/ M_Signal

SpecRun == Init /\ [][NextRun]_vars

(***************************************************************************)
(* The pipeline of Count: from_sam, from_fastq, from_raw_fastq.  Of run_cmd *)
(* the pipeline sees the command printed, the child's lines echoed by the  *)
(* writer thread at any later time, and the return.  stdout holds the      *)
(* lines that have been ended by a newline, engine.partial the text        *)
(* written since the last newline, by whichever thread.                    *)
(***************************************************************************)
MaxPipelineLines == 1
\* lines the external programs of one run write, to stdout and stderr together
MaxToolLines == 1

FastqName(i) == "sample" \o Str(i) \o ".fastq"

PairName(i) == "sample" \o Str(i) \o "_2.fastq"

\* Count.__sam_file: './alignment/' + the fastq file's name with .sam
AlignmentName(i) == "./alignment/sample" \o Str(i) \o ".sam"

FastaName == "te.fa"

FileNotFound(name) == name \o " file not found"

\* the files a turn of the loop may find: args.sam_files[i],
\* args.fastq_files[i], args.fastq_pair_files[i]
SampleFiles == {"sam", "fastq", "pair"}

\* path.isfile
IsFile(e, f) == f \in e.files

\* a text (a sequence of characters) as a string
RECURSIVE StrOf(_)
StrOf(text) == IF text = <<>> THEN "" ELSE Head(text) \o StrOf(Tail(text))

\* print(text) by the main thread, its first write: sys.stdout.write(text).
\* The second write, of the newline, is a later step, after which the main
\* thread goes on at to, or has raised exc
StdoutWrite(e, text, to, exc) ==
    [e EXCEPT !.partial = @ \o text, !.after = [pc |-> to, exc |-> exc]]

\* what a step that prints the lines out (none or one) leaves the engine as
Printing(e, out, to, exc) == IF out = <<>> THEN e ELSE StdoutWrite(e, out[1], to, exc)

\* run_cmd(self.procs, command) is called: print(command)
RunCmd(e, tool, i) ==
    [engine |-> [e EXCEPT !.commands = Append(@, [tool |-> tool, sample |-> i]),
                          !.wrote = [out |-> <<>>, err |-> <<>>]],
     out |-> <<tool>>, exc |-> ""]

\* Popen finds the program of the command and the child runs, with a new
\* queue for its lines, or it does not and raises FileNotFoundError
Popen(e, found) ==
    [engine |-> [e EXCEPT !.queues = IF found THEN Append(@, <<>>) ELSE @],
     out |-> <<>>,
     exc |-> IF found THEN "" ELSE "FileNotFoundError"]

\* the checks of from_fastq and from_raw_fastq, and __sam_file
FastqCheck(e, i) ==
    IF ~IsFile(e, "fastq")
    THEN [engine |-> e, out |-> <<FileNotFound(FastqName(i))>>, exc |-> "SystemExit"]
    ELSE IF e.paired_file = None
    THEN [engine |-> [e EXCEPT !.fastq_file = FastqName(i), !.paired = FALSE,
                               !.fastq_pair_file = "None",
                               !.sam_file = "alignment"],
          out |-> <<AlignmentName(i)>>, exc |-> ""]
    ELSE IF ~IsFile(e, "pair")
    THEN [engine |-> [e EXCEPT !.fastq_file = FastqName(i), !.paired = TRUE],
          out |-> <<FileNotFound(PairName(i))>>, exc |-> "SystemExit"]
    ELSE [engine |-> [e EXCEPT !.fastq_file = FastqName(i), !.paired = TRUE,
                               !.fastq_pair_file = PairName(i),
                               !.sam_file = "alignment"],
          out |-> <<AlignmentName(i)>>, exc |-> ""]

\* Count.__quality_trimming after its first print, up to the call of run_cmd
QualityTrimming(e, i) ==
    IF e.paired /\ ~IsFile(e, "pair")
    THEN [engine |-> [e EXCEPT !.fastq_file = "QC_" \o @],
          out |-> <<FileNotFound(e.fastq_pair_file)>>,
          exc |-> "SystemExit"]
    ELSE [engine |-> [e EXCEPT !.fastq_file = "QC_" \o @,
                               !.fastq_pair_file = IF e.paired THEN "QC_" \o @ ELSE @,
                               !.command = "UrQt"],
          out |-> <<>>, exc |-> ""]

BuildTool(e) == IF e.options.bowtie2 THEN "bowtie2-build" ELSE "bowtie-build"

MapTool(e) == IF e.options.bowtie2 THEN "bowtie2" ELSE "bowtie"

\* self.index_file = self.fasta_file + '.index', and with bowtie2 + str(2)
IndexName(e) == FastaName \o ".index" \o (IF e.options.bowtie2 THEN "2" ELSE "")

\* a faulty __mapping_index: the index is built without looking for the file
MappingIndexNoCheck(e, i) ==
    [engine |-> [e EXCEPT !.index_file = IndexName(e), !.command = BuildTool(e)],
     out |-> <<>>, exc |-> ""]

\* Count.__mapping_index after its first print, up to the call of run_cmd
MappingIndex(e, i) ==
    IF IsFile(e, "fasta")
    THEN [engine |-> [e EXCEPT !.index_file = IndexName(e),
                               !.command = BuildTool(e)],
          out |-> <<>>, exc |-> ""]
    ELSE [engine |-> e, out |-> <<FileNotFound(FastaName)>>, exc |-> "SystemExit"]

\* the command line of the pipeline
PipelineOptions ==
    [sam_files : BOOLEAN, fastq_files : BOOLEAN, fastq_pair_files : BOOLEAN,
     quality_control : BOOLEAN, bowtie2 : BOOLEAN]

PipelineLines ==
    {SamLine("r", 11, RName(FALSE, "c2"), "0", "AC"), SamLine("@", 3, RName(FALSE, ""), "", "")}

P_Args == D_ArgsWith({Default(DefaultMapq)}, {Given("3")}, {Given("1")}, {1, 2},
                     {o \in PipelineOptions : o.sam_files \/ o.fastq_files})

P_Line == D_LineFrom(PipelineLines, MaxPipelineLines)

pipelineUnchanged ==
    <<table, returned, setitems, args, count_out, sirna_out, calls, purges, contrib,
      contrib_si, counting, sample, lines_read, hits>>

\* the head of a turn of the driver's loop: which of the files of sample i
\* exist as the turn begins (the reference file exists since Count.__init__
\* has read it, unless it has been removed since)
P_Sample ==
    /\ pc = "d_sample" /\ failed = ""
    /\ \E present \in SUBSET SampleFiles :
          engine' = [engine EXCEPT !.files =
                        present \cup (IF sample = 0 THEN {"fasta"} ELSE @ \cap {"fasta"})]
    /\ pc' = "p_driver"
    /\ op' = [NoOp EXCEPT !.name = "sample"]
    /\ UNCHANGED <<rosette, stdout, failed, last>>
    /\ UNCHANGED pipelineUnchanged
    /\ UNCHANGED runVars

\* the files the next step of the main thread looks for
TestedNext ==
    IF pc = "p_from_sam" THEN {"sam"}
    ELSE IF pc \in {"p_from_fastq", "p_from_raw_fastq"} THEN {"fastq", "pair"}
    ELSE IF pc = "p_trim_pair" THEN {"pair"}
    ELSE IF pc = "p_index_file" THEN {"fasta"}
    ELSE IF pc = "p_count" THEN {engine.sam_file}
    ELSE {}

\* a file is removed while the program runs, before the program looks for
\* it (a removal at any earlier time shows at the same test)
E_Remove ==
    /\ failed = ""
    /\ \E f \in engine.files \cap TestedNext : engine' = [engine EXCEPT !.files = @ \ {f}]
    /\ op' = [NoOp EXCEPT !.name = "remove"]
    /\ UNCHANGED <<rosette, stdout, failed, last, pc>>
    /\ UNCHANGED pipelineUnchanged
    /\ UNCHANGED runVars

\* a step of the main thread that prints the lines out (none or one) and
\* then goes on at to, or has raised exc: the step itself when nothing is
\* printed, else up to the first write of the print
MainPrint(e, out, to, exc) ==
    /\ engine' = Printing(e, out, to, exc)
    /\ pc' = IF out = <<>> THEN to ELSE "p_newline"
    /\ failed' = IF out = <<>> THEN exc ELSE ""
    /\ UNCHANGED stdout

\* print(...) by the main thread, its second write: the newline ends the
\* line, with whatever a writer thread has written to it in between
P_Newline ==
    /\ pc = "p_newline" /\ failed = ""
    /\ stdout' = Append(stdout, engine.partial)
    /\ engine' = [engine EXCEPT !.partial = "", !.after = NoEngine.after]
    /\ pc' = engine.after.pc
    /\ failed' = engine.after.exc
    /\ op' = [NoOp EXCEPT !.name = "newline"]
    /\ UNCHANGED <<rosette, last>>
    /\ UNCHANGED pipelineUnchanged
    /\ UNCHANGED runVars

\* the body of a turn of the driver's loop up to its first print: the SAM
\* file of the sample, or paired_file = None and its fastq file
P_Driver ==
    /\ pc = "p_driver" /\ failed = ""
    /\ IF engine.options.sam_files /\ IsFile(engine, "sam")
       THEN MainPrint(engine, <<"counting " \o SamFileName(sample) \o "...">>,
                      "p_from_sam", "")
       ELSE IF ~engine.options.fastq_files
       THEN /\ failed' = "TypeError"
            /\ UNCHANGED <<engine, stdout, pc>>
       ELSE MainPrint([engine EXCEPT !.paired_file = None],
                      <<"counting " \o FastqName(sample) \o "...">>, "p_pair", "")
    /\ op' = [NoOp EXCEPT !.name = "driver"]
    /\ UNCHANGED <<rosette, last>>
    /\ UNCHANGED pipelineUnchanged
    /\ UNCHANGED runVars

\* the rest of the turn up to the call of a from_ method: the pair file
P_Pair ==
    /\ pc = "p_pair" /\ failed = ""
    /\ LET to == IF engine.options.quality_control /\ ~rosette.count_sirna
                 THEN "p_from_raw_fastq" ELSE "p_from_fastq"
       IN  IF engine.options.fastq_pair_files
           THEN MainPrint([engine EXCEPT !.paired_file = PairName(sample)],
                          <<"counting " \o PairName(sample) \o "...">>, to, "")
           ELSE MainPrint(engine, <<>>, to, "")
    /\ op' = [NoOp EXCEPT !.name = "pair"]
    /\ UNCHANGED <<rosette, last>>
    /\ UNCHANGED pipelineUnchanged
    /\ UNCHANGED runVars

\* Count.from_sam up to the call of __count
P_FromSam ==
    /\ pc = "p_from_sam" /\ failed = ""
    /\ rosette' = ResetCount(rosette).rosette
    /\ IF IsFile(engine, "sam")
       THEN MainPrint([engine EXCEPT !.sam_file = "sam"], <<>>, "p_count", "")
       ELSE MainPrint(engine, <<FileNotFound(SamFileName(sample))>>, pc, "SystemExit")
    /\ op' = [NoOp EXCEPT !.name = "from_sam"]
    /\ UNCHANGED last
    /\ UNCHANGED pipelineUnchanged
    /\ UNCHANGED runVars

\* Count.from_fastq up to the call of __mapping_index
P_FromFastq ==
    /\ pc = "p_from_fastq" /\ failed = ""
    /\ rosette' = ResetCount(rosette).rosette
    /\ LET res == FastqCheck(engine, sample)
       IN  MainPrint(res.engine, res.out, IF res.exc = "" THEN "p_index" ELSE pc, res.exc)
    /\ op' = [NoOp EXCEPT !.name = "from_fastq"]
    /\ UNCHANGED last
    /\ UNCHANGED pipelineUnchanged
    /\ UNCHANGED runVars

\* Count.from_raw_fastq up to the call of __quality_trimming
P_FromRawFastq ==
    /\ pc = "p_from_raw_fastq" /\ failed = ""
    /\ rosette' = ResetCount(rosette).rosette
    /\ LET res == FastqCheck(engine, sample)
       IN  MainPrint(res.engine, res.out, IF res.exc = "" THEN "p_trim" ELSE pc, res.exc)
    /\ op' = [NoOp EXCEPT !.name = "from_raw_fastq"]
    /\ UNCHANGED last
    /\ UNCHANGED pipelineUnchanged
    /\ UNCHANGED runVars

\* Count.__quality_trimming: its first print
P_QualityTrimming ==
    /\ pc = "p_trim" /\ failed = ""
    /\ MainPrint(engine, <<"quality trimming using UrQt">>, "p_trim_pair", "")
    /\ op' = [NoOp EXCEPT !.name = "quality_trimming"]
    /\ UNCHANGED <<rosette, last>>
    /\ UNCHANGED pipelineUnchanged
    /\ UNCHANGED runVars

\* Count.__quality_trimming from the command to the call of run_cmd
P_TrimPair ==
    /\ pc = "p_trim_pair" /\ failed = ""
    /\ LET res == QualityTrimming(engine, sample)
       IN  MainPrint(res.engine, res.out, IF res.exc = "" THEN "p_cmd" ELSE pc, res.exc)
    /\ op' = [NoOp EXCEPT !.name = "trim_pair"]
    /\ UNCHANGED <<rosette, last>>
    /\ UNCHANGED pipelineUnchanged
    /\ UNCHANGED runVars

\* Count.__mapping_index: its first print
P_MappingIndex ==
    /\ pc = "p_index" /\ failed = ""
    /\ MainPrint(engine, <<"building index">>, "p_index_file", "")
    /\ op' = [NoOp EXCEPT !.name = "mapping_index"]
    /\ UNCHANGED <<rosette, last>>
    /\ UNCHANGED pipelineUnchanged
    /\ UNCHANGED runVars

\* Count.__mapping_index from the test of the file to the call of run_cmd
P_IndexFile ==
    /\ pc = "p_index_file" /\ failed = ""
    /\ LET res == MappingIndex(engine, sample)
       IN  MainPrint(res.engine, res.out, IF res.exc = "" THEN "p_cmd" ELSE pc, res.exc)
    /\ op' = [NoOp EXCEPT !.name = "index_file"]
    /\ UNCHANGED <<rosette, last>>
    /\ UNCHANGED pipelineUnchanged
    /\ UNCHANGED runVars

\* Count.__mapping up to the call of run_cmd: its print and the command
P_Mapping ==
    /\ pc = "p_map" /\ failed = ""
    /\ MainPrint([engine EXCEPT !.command = MapTool(engine)], <<"mapping reads">>,
                 "p_cmd", "")
    /\ op' = [NoOp EXCEPT !.name = "mapping"]
    /\ UNCHANGED <<rosette, last>>
    /\ UNCHANGED pipelineUnchanged
    /\ UNCHANGED runVars

\* run_cmd(self.procs, command) is called: print(command)
P_RunCmd ==
    /\ pc = "p_cmd" /\ failed = ""
    /\ LET res == RunCmd(engine, engine.command, sample)
       IN  MainPrint(res.engine, res.out, "p_popen", res.exc)
    /\ op' = [NoOp EXCEPT !.name = "run_cmd"]
    /\ UNCHANGED <<rosette, last>>
    /\ UNCHANGED pipelineUnchanged
    /\ UNCHANGED runVars

\* run_cmd: procs.append(Popen(...)) and the three threads are started
P_Popen ==
    /\ pc = "p_popen" /\ failed = ""
    /\ \E found \in BOOLEAN :
          LET res == Popen(engine, found)
          IN  MainPrint(res.engine, res.out, IF res.exc = "" THEN "p_run" ELSE pc, res.exc)
    /\ op' = [NoOp EXCEPT !.name = "popen"]
    /\ UNCHANGED <<rosette, last>>
    /\ UNCHANGED pipelineUnchanged
    /\ UNCHANGED runVars

\* the streams the tools of the pipeline write to (the writer thread echoes
\* the lines of both streams alike)
ToolStreams == {"out"}

\* while run_cmd waits: the child writes its next line, and the reader
\* thread of the stream puts it on the queue
P_ToolLine ==
    /\ pc = "p_run" /\ failed = ""
    /\ engine.written < MaxToolLines
    /\ \E s \in ToolStreams, nl \in {TRUE} :
          LET wrote == engine.wrote[s]
              line == ChildLine(s, Len(wrote) + 1, nl)
          IN  /\ wrote # <<>> => EndsWithNewline(wrote[Len(wrote)])
              /\ engine' = [engine EXCEPT !.wrote[s] = Append(@, line),
                                          !.written = @ + 1,
                                          !.queues[Len(engine.queues)] = Append(@, line)]
    /\ op' = [NoOp EXCEPT !.name = "tool_line"]
    /\ UNCHANGED <<rosette, stdout, failed, last, pc>>
    /\ UNCHANGED pipelineUnchanged
    /\ UNCHANGED runVars

\* run_cmd returns: the child has exited, the reader threads are joined;
\* the caller goes on (__mapping_index sets index_build; the mapping has
\* written the SAM file or it has not)
P_Return ==
    /\ pc = "p_run" /\ failed = ""
    /\ \E made \in BOOLEAN :
          LET tool == engine.command
          IN  /\ engine' = [engine EXCEPT
                               !.command = None,
                               !.index_build = IF tool = BuildTool(engine) THEN TRUE ELSE @,
                               !.files = IF tool = MapTool(engine) /\ made
                                         THEN @ \cup {"alignment"} ELSE @]
              /\ tool # MapTool(engine) => ~made
              /\ pc' = IF tool = "UrQt" THEN "p_index"
                       ELSE IF tool = BuildTool(engine) THEN "p_map" ELSE "p_count"
    /\ op' = [NoOp EXCEPT !.name = "return"]
    /\ UNCHANGED <<rosette, stdout, failed, last>>
    /\ UNCHANGED pipelineUnchanged
    /\ UNCHANGED runVars

\* write_output of some invocation of run_cmd: the next line of its queue
\* is printed without its last character, up to the first write of the
\* print.  The thread is a daemon that nothing joins: it runs until the
\* interpreter ends
P_Echo ==
    /\ terminated = ""
    /\ \E n \in DOMAIN engine.queues :
          /\ n \notin engine.printing
          /\ engine.queues[n] # <<>>
          /\ LET g == QueueGet(engine.queues[n])
             IN  engine' = [engine EXCEPT
                               !.queues[n] = g.rest,
                               !.partial = @ \o StrOf(AllButLast(g.item.text)),
                               !.printing = @ \cup {n}]
    /\ op' = [NoOp EXCEPT !.name = "echo"]
    /\ UNCHANGED <<rosette, stdout, failed, last, pc>>
    /\ UNCHANGED pipelineUnchanged
    /\ UNCHANGED runVars

\* write_output: the second write of its print, the newline
P_EchoEnd ==
    /\ terminated = ""
    /\ \E n \in engine.printing :
          /\ stdout' = Append(stdout, engine.partial)
          /\ engine' = [engine EXCEPT !.partial = "", !.printing = @ \ {n}]
    /\ op' = [NoOp EXCEPT !.name = "echo_end"]
    /\ UNCHANGED <<rosette, failed, last, pc>>
    /\ UNCHANGED pipelineUnchanged
    /\ UNCHANGED runVars

\* the interpreter ends, after the last statement or an uncaught exception:
\* the atexit handler finds an empty registry, the daemon threads end
P_Exit ==
    /\ terminated = ""
    /\ failed # "" \/ pc = "done"
    /\ terminated' = IF failed = "" THEN "exit" ELSE "exception"
    /\ child' = KillSubprocesses(procs, child)
    /\ op' = [NoOp EXCEPT !.name = "exit"]
    /\ UNCHANGED <<rosette, stdout, failed, last, pc, engine>>
    /\ UNCHANGED pipelineUnchanged
    /\ UNCHANGED <<procs, pipes, queues, captured, console, tasks, main, results>>

\* Count.__count up to the first line: open(self.sam_file)
P_Count ==
    /\ pc = "p_count" /\ failed = ""
    /\ IF IsFile(engine, engine.sam_file)
       THEN pc' = "d_lines" /\ failed' = ""
       ELSE pc' = pc /\ failed' = "FileNotFoundError"
    /\ last' = NoLast
    /\ op' = [NoOp EXCEPT !.name = "count"]
    /\ UNCHANGED <<rosette, stdout, engine>>
    /\ UNCHANGED pipelineUnchanged
    /\ UNCHANGED runVars

NextPipeline ==
    P_Args \/ S_Rosette \/ S_Count \/ P_Sample \/ E_Remove \/ P_Driver \/ P_Pair
        \/ P_FromSam \/ P_FromFastq \/ P_FromRawFastq \/ P_QualityTrimming \/ P_TrimPair
        \/ P_MappingIndex \/ P_IndexFile \/ P_Mapping \/ P_RunCmd \/ P_Popen
        \/ P_Newline \/ P_ToolLine \/ P_Return \/ P_Echo \/ P_EchoEnd \/ P_Exit
        \/ P_Count \/ P_Line \/ D_EndOfFile \/ D_Write \/ ConfigNotFound

SpecPipeline == Init /\ [][NextPipeline]_vars

(***************************************************************************)
(* Claims.                                                                 *)
(***************************************************************************)
\* the item of the n-th add call was first added by call FirstAdd(n)
FirstAdd(n) ==
    CHOOSE i \in 1 .. n :
        /\ returned[i].item = returned[n].item
        /\ \A j \in 1 .. i - 1 : returned[j].item # returned[n].item

\* C1: after any sequence of add calls on an empty Double_dict, add(v) returns the
\* key every earlier add(v) returned, len() is the number of distinct values added,
\* the keys are exactly 0..len()-1, a value's key is the number of distinct values
\* added before it first was, and every key returned still maps to its value.
\* (The claim is about tables that only add has changed: setitems = 0.)
C1_Interning ==
    LET n == Len(returned)
        items == {returned[i].item : i \in 1 .. n}
    IN  setitems = 0 =>
           /\ \A i, j \in 1 .. n :
                 returned[i].item = returned[j].item => returned[i].key = returned[j].key
           /\ DDLen(table) = Cardinality(items)
           /\ {returned[i].key : i \in 1 .. n} = 0 .. DDLen(table) - 1
           /\ DOMAIN table.forward = 0 .. DDLen(table) - 1
           /\ DOMAIN table.reverse = items
           /\ \A i \in 1 .. n :
                 /\ returned[i].key
                      = Cardinality({returned[j].item : j \in 1 .. FirstAdd(i) - 1})
                 /\ table.forward[returned[i].key] = returned[i].item
                 /\ table.reverse[returned[i].item] = returned[i].key

\* a value was added a second time after another value had been added in between
C1_Witness ==
    \E i, j \in 1 .. Len(returned) :
        /\ i + 1 < j
        /\ returned[i].item = returned[j].item
        /\ returned[i + 1].item # returned[i].item
        /\ DDLen(table) >= 2
        /\ setitems = 0

\* C2: after the load and any interleaving of reset_count, count, count_si (and
\* purge) calls, every grouping variable's total, valid or not, is the sum of the
\* amounts of the count calls whose identifier the rosette file maps to it, and its
\* siRNA total the sum over the count_si calls; reset_count, which adds nothing to
\* the sums, therefore changes no total.
C2_Aggregation ==
    pc = "loaded" =>
        /\ \A v \in DOMAIN rosette.TE_count_total :
              rosette.TE_count_total[v] = contrib[v]
        /\ rosette.count_sirna =>
              \A v \in DOMAIN rosette.sirna_count_total :
                  rosette.sirna_count_total[v] = contrib_si[v]

\* reset_count has just run on a table where an invalid variable and a siRNA
\* counter have counts
C2_Witness ==
    /\ op.name = "reset_count" /\ failed = ""
    /\ \E v \in DOMAIN rosette.TE_count_total :
          /\ ~rosette.TE_count_valid[v]
          /\ rosette.TE_count_total[v] > 0
          /\ rosette.TE_count[v][rosette.current_sample] = 0
    /\ rosette.count_sirna

\* C3: a reset_count call advances current_sample by exactly one, sets to 0 the
\* slot of the new current sample in every variable's counts (main and siRNA) and
\* leaves every other slot and every total as it was.
C3_SampleIsolation ==
    [][StartSample =>
         /\ rosette'.current_sample = rosette.current_sample + 1
         /\ DOMAIN rosette'.TE_count = DOMAIN rosette.TE_count
         /\ \A v \in DOMAIN rosette.TE_count :
               /\ DOMAIN rosette'.TE_count[v] = DOMAIN rosette.TE_count[v]
               /\ \A j \in DOMAIN rosette.TE_count[v] :
                     rosette'.TE_count[v][j] =
                        IF j = rosette'.current_sample THEN 0 ELSE rosette.TE_count[v][j]
         /\ rosette.count_sirna =>
               /\ DOMAIN rosette'.sirna_count = DOMAIN rosette.sirna_count
               /\ \A v \in DOMAIN rosette.sirna_count :
                     /\ DOMAIN rosette'.sirna_count[v] = DOMAIN rosette.sirna_count[v]
                     /\ \A j \in DOMAIN rosette.sirna_count[v] :
                           rosette'.sirna_count[v][j] =
                              IF j = rosette'.current_sample THEN 0
                              ELSE rosette.sirna_count[v][j]
         /\ rosette'.TE_count_total = rosette.TE_count_total
         /\ rosette'.sirna_count_total = rosette.sirna_count_total
         /\ rosette'.TE_count_valid = rosette.TE_count_valid
      ]_vars

\* the second sample has just been started and the first sample's slot keeps its count
C3_Witness ==
    /\ op.name = "reset_count" /\ failed = ""
    /\ rosette.current_sample = 1
    /\ \E v \in DOMAIN rosette.TE_count :
          /\ rosette.TE_count[v][0] > 0
          /\ rosette.TE_count[v][1] = 0
          /\ rosette.TE_count_total[v] > 0

\* C8: a count or count_si call with an identifier that no row of the rosette file
\* has raises nothing, prints the not-found line and changes nothing of the table
\* (counts, totals, current_sample, validity).
C8_UnknownIdentifier ==
    [][(/\ calls' = calls + 1
        /\ op'.name \in {"count", "count_si"}
        /\ op'.identifier \notin FileIds(args.rosette_file))
       => /\ rosette' = rosette
          /\ failed' = ""
          /\ stdout' = Append(stdout, NotFoundMessage(op'.identifier))
      ]_vars

\* an unknown identifier was counted on a table that holds counts, and the run goes on
C8_Witness ==
    /\ op.name \in {"count", "count_si"}
    /\ op.identifier \notin FileIds(args.rosette_file)
    /\ failed = ""
    /\ FileIds(args.rosette_file) # {}
    /\ \E v \in DOMAIN rosette.TE_count_total : rosette.TE_count_total[v] > 0

\* the strings that start a line of an output file, and the number of finished lines
LineStarts(text) == {text[i] : i \in {j \in DOMAIN text : j = 1 \/ text[j - 1] = "\n"}}

FinishedLines(text) == Cardinality({i \in DOMAIN text : text[i] = "\n"})

\* the variables that the headers of a fasta file resolve to, read off the rosette file
HeaderVariables(file, col, fasta) ==
    {GroupOf(file, col, fasta.lines[i].rest) :
        i \in {j \in DOMAIN fasta.lines :
                  /\ fasta.lines[j].first = ">"
                  /\ fasta.lines[j].rest \in FileIds(file)}}

ValidVariables == {v \in DOMAIN rosette.TE_count_valid : rosette.TE_count_valid[v]}

\* after a purge, exactly the variables of the fasta headers are valid
PurgeSetsValidity ==
    (pc = "loaded" /\ purges >= 1 /\ args.fasta_file.exists) =>
        ValidVariables
           = HeaderVariables(args.rosette_file, rosette.count_column, args.fasta_file)

\* C4: after purge(fasta_file) a variable is valid iff a header of the fasta file
\* resolves to it, whatever its validity was before; a write then emits one line
\* for each valid variable and no other line (in the siRNA file as well).
C4_PurgeCorrect ==
    /\ PurgeSetsValidity
    /\ (pc = "loaded" /\ purges >= 1 /\ args.fasta_file.exists /\ op.name = "write") =>
          /\ failed = ""
          /\ LineStarts(count_out.text) = {v \o " " : v \in ValidVariables}
          /\ FinishedLines(count_out.text) = Cardinality(ValidVariables)
          /\ rosette.count_sirna =>
                /\ LineStarts(sirna_out.text) = {v \o " " : v \in ValidVariables}
                /\ FinishedLines(sirna_out.text) = Cardinality(ValidVariables)

\* the rows of the file that the load is to keep: all with an identifier
RowIds(file) == FileIds(file)

\* C9: a load does not abort on a row whose number of columns is not the first
\* line's: the row is logged and every row of the file, the later ones included,
\* is loaded.
C9_LoadNeverAborts ==
    (/\ op.name = "load"
     /\ args.count_file # None
     /\ Len(args.rosette_file) >= 1
     /\ rosette.count_column \in DOMAIN args.rosette_file[1]) =>
        /\ failed = ""
        /\ \A id \in RowIds(args.rosette_file) : id \in DOMAIN rosette.TE_identifier
        /\ \A i \in 1 .. Len(args.rosette_file) :
              ZLen(args.rosette_file[i]) # ZLen(args.rosette_file[1]) =>
                 \E j \in DOMAIN stdout :
                    stdout[j] = "line " \o Str(i) \o " has "
                                  \o Str(ZLen(args.rosette_file[i])) \o " rows"

\* the table groups by the column with 1-based number n of the rosette file
GroupsByColumn(n) ==
    /\ DOMAIN rosette.TE_count_variable
          = {args.rosette_file[i][n - 1] : i \in 1 .. Len(args.rosette_file)}
    /\ \A id \in FileIds(args.rosette_file) :
          GetCountVariable(rosette, id).value = GroupOf(args.rosette_file, n - 1, id)

Warned == \E j \in DOMAIN stdout : stdout[j] = WrongColumnWarning

\* a load of a file whose rows all have the N >= 2 columns of the first line
CompleteLoad ==
    /\ op.name = "load"
    /\ args.count_file # None
    /\ Len(args.rosette_file) >= 1
    /\ ZLen(args.rosette_file[1]) >= 2
    /\ \A i \in 1 .. Len(args.rosette_file) :
          ZLen(args.rosette_file[i]) >= ZLen(args.rosette_file[1])

\* C10 as stated: the load groups by column c when c >= 1, and by column 1, with a
\* warning, when c <= 0.
C10_ColumnAsGiven ==
    (CompleteLoad /\ args.count_column <= ZLen(args.rosette_file[1])) =>
        IF args.count_column >= 1
        THEN GroupsByColumn(args.count_column)
        ELSE GroupsByColumn(1) /\ Warned

\* C10, amended: for a file of N >= 2 columns the load groups by column c when
\* 2 <= c <= N, without a warning, and by column 2 (the first attribute column),
\* with the warning, when c <= 1: neither an index below 1 nor the identifier
\* column 1 is used as given.
C10_ColumnCoerced ==
    (CompleteLoad /\ args.count_column <= ZLen(args.rosette_file[1])) =>
        /\ failed = ""
        /\ IF args.count_column >= 2
           THEN GroupsByColumn(args.count_column) /\ ~Warned
           ELSE GroupsByColumn(2) /\ Warned /\ ~GroupsByColumn(1)

\* columns 0, 1 and 3 were asked for on files whose columns differ
C10_Witness ==
    /\ CompleteLoad
    /\ args.count_column <= 0
    /\ Len(args.rosette_file) = 3
    /\ Warned
    /\ GroupsByColumn(2)
    /\ Cardinality(DOMAIN rosette.TE_count_variable) >= 2

(***************************************************************************)
(* Classification and routing of the lines of a SAM file (SpecDriver).     *)
(***************************************************************************)
\* a step of the loop of Count.__count
LineStep == pc = "d_lines" /\ failed = "" /\ lines_read' = lines_read + 1

\* the line read by the step is a data line of more than 4 fields with a numeric MAPQ
Record(line) == line.first # "@" /\ line.nfields > 4 /\ IsInt(line.mapq)

\* the step made a call of count or count_si and returned
Counted == last'.call # "" /\ failed' = ""

\* C5: classification boundary.  For every record read by Count.__count
\* whose reference name is not the unmapped placeholder '*': with MAPQ equal
\* to the configured maximum the record is counted (a count or count_si
\* call is made for it), with MAPQ equal to the maximum + 1 it is not
\* counted; a record whose reference name is '*' is never counted.
C5_ClassificationBoundary ==
    [][LineStep /\ Record(last'.line) =>
          LET line == last'.line
          IN  /\ (Name(line.rname) # "*" /\ PyInt(line.mapq) = counting.max_mapq)
                    => Counted
              /\ (Name(line.rname) # "*" /\ PyInt(line.mapq) = counting.max_mapq + 1)
                    => ~Counted
              /\ Name(line.rname) = "*" => ~Counted]_vars

\* the counters of the main table and of the siRNA table
MainCounters(r) == <<r.TE_count, r.TE_count_total>>

SirnaCounters(r) == IF r.count_sirna THEN <<r.sirna_count, r.sirna_count_total>> ELSE <<>>

\* the variable an identifier of the loaded file is counted under
VariableOf(identifier) == GroupOf(args.rosette_file, rosette.count_column, identifier)

Known(identifier) == identifier \in FileIds(args.rosette_file)

\* the step adds one to the current sample's slot and to the total of the
\* identifier's variable in the main table, and changes nothing else of it
MainIncremented(identifier) ==
    LET v == VariableOf(identifier)
    IN  /\ rosette'.TE_count = [rosette.TE_count EXCEPT ![v][rosette.current_sample] = @ + 1]
        /\ rosette'.TE_count_total = [rosette.TE_count_total EXCEPT ![v] = @ + 1]

SirnaIncremented(identifier) ==
    LET v == VariableOf(identifier)
    IN  /\ rosette'.sirna_count = [rosette.sirna_count EXCEPT ![v][rosette.current_sample] = @ + 1]
        /\ rosette'.sirna_count_total = [rosette.sirna_count_total EXCEPT ![v] = @ + 1]

\* C6: small-RNA routing.  With splitting enabled and configured length L,
\* a counted record whose read sequence has length L goes to count_si: the
\* siRNA counter of its variable is incremented and the main counters are
\* unchanged; a counted record of any other length goes to count: the main
\* counter of its variable is incremented and the siRNA counters are
\* unchanged.  With splitting disabled every record that passes the test of
\* Count.__count goes to count and none to count_si.
C6_Routing ==
    [][LineStep =>
          LET line == last'.line
              identifier == Name(line.rname)
          IN  /\ (rosette.count_sirna /\ Counted) =>
                    IF Len(line.seq) = PyInt(counting.sirna_size)
                    THEN /\ last'.call = "count_si"
                         /\ MainCounters(rosette') = MainCounters(rosette)
                         /\ Known(identifier) => SirnaIncremented(identifier)
                    ELSE /\ last'.call = "count"
                         /\ SirnaCounters(rosette') = SirnaCounters(rosette)
                         /\ Known(identifier) => MainIncremented(identifier)
              /\ ~rosette.count_sirna =>
                    /\ last'.call # "count_si"
                    /\ (Record(line) /\ Qualifies(counting, line).value) =>
                          /\ last'.call = "count"
                          /\ Known(identifier) => MainIncremented(identifier)]_vars

\* both routes have been taken in one run with splitting enabled: a record of
\* the siRNA length was counted in the siRNA table, another in the main table
C6_Witness ==
    /\ rosette.count_sirna /\ failed = "" /\ pc = "d_lines" /\ last.call = "count"
    /\ Len(last.line.seq) # PyInt(counting.sirna_size)
    /\ \E v \in DOMAIN rosette.TE_count_total :
          rosette.TE_count_total[v] = 1 /\ rosette.sirna_count_total[v] = 1

(***************************************************************************)
(* The end-to-end scenario (SpecScenario).                                 *)
(***************************************************************************)
\* the run was the scenario's: its rosette file and fasta file, two samples,
\* 5 lines counted for LINE1 and none for SINE1 in sample 0, none for LINE1
\* and 3 for SINE1 in sample 1
Scenario ==
    /\ args.rosette_file = ScenarioFile /\ args.fasta_file = ScenarioFasta
    /\ args.sample_number = 2
    /\ hits[0]["LINE1"] = 5 /\ hits[0]["SINE1"] = 0
    /\ hits[1]["LINE1"] = 0 /\ hits[1]["SINE1"] = 3

\* C7: end-to-end scenario.  When the program has ended on the scenario, it
\* has ended without an exception and the count file holds the line
\* "LINE1 5 0 5" and no line for SINE1.
C7_EndToEnd ==
    (pc = "done" /\ Scenario) =>
        /\ failed = ""
        /\ count_out = [exists |-> TRUE, text |-> <<"LINE1 ", "5 ", "0 ", "5", "\n">>]

C7_Witness == pc = "done" /\ Scenario /\ count_out.exists

(***************************************************************************)
(* The lines written by Rosette.write (SpecTable).                         *)
(***************************************************************************)
\* the positions in an output file at which a line starts
LinePositions(text) == {j \in DOMAIN text : j = 1 \/ text[j - 1] = "\n"}

\* the variable v has a line in the output file
HasLine(text, v) == \E j \in LinePositions(text) : text[j] = v \o " "

\* the position of the line of v
LinePos(text, v) == CHOOSE j \in LinePositions(text) : text[j] = v \o " "

\* the rows of the loaded file that have the grouping value v
RowsWith(v) ==
    {i \in 1 .. Len(args.rosette_file) :
        /\ rosette.count_column \in DOMAIN args.rosette_file[i]
        /\ args.rosette_file[i][rosette.count_column] = v}

\* the first row of the loaded file with the grouping value v
FirstRowWith(v) == CHOOSE i \in RowsWith(v) : \A j \in RowsWith(v) : i <= j

\* C11: write order.  The lines written by write are in load order of the
\* grouping variables: if the first row with grouping value v precedes the
\* first row with grouping value w, the line of v precedes the line of w.
C11_WriteOrder ==
    (pc = "loaded" /\ op.name = "write") =>
        \A v, w \in ValidVariables :
            (/\ HasLine(count_out.text, v) /\ HasLine(count_out.text, w)
             /\ FirstRowWith(v) < FirstRowWith(w))
                => LinePos(count_out.text, v) < LinePos(count_out.text, w)

\* the values of the attribute columns of a row other than the grouping
\* column, from column i on, each as written to the output file
RECURSIVE OtherColumnsOf(_, _)
OtherColumnsOf(row, i) ==
    IF i >= rosette.column_number \/ i \notin DOMAIN row THEN <<>>
    ELSE (IF i = rosette.count_column THEN <<>> ELSE <<row[i] \o " ">>)
         \o OtherColumnsOf(row, i + 1)

\* the counts of samples i .. k-1 as written to the output file
RECURSIVE CountsOf(_, _)
CountsOf(vec, i) ==
    IF i \notin DOMAIN vec THEN <<>> ELSE <<Str(vec[i]) \o " ">> \o CountsOf(vec, i + 1)

\* the line of the variable v: its value, the other attributes of the first
\* row that has it, its counts and its total
LineOf(v) ==
    <<v \o " ">> \o OtherColumnsOf(args.rosette_file[FirstRowWith(v)], 1)
        \o CountsOf(rosette.TE_count[v], 0)
        \o <<Str(rosette.TE_count_total[v]), "\n">>

\* the output file has, at the line of v, exactly the strings of line
HasLineAt(text, v, line) ==
    /\ HasLine(text, v)
    /\ LinePos(text, v) + Len(line) - 1 <= Len(text)
    /\ SubSeq(text, LinePos(text, v), LinePos(text, v) + Len(line) - 1) = line

\* C12: write content.  After a write, for every grouping column, every
\* valid variable has its line in the count file: the grouping value, the
\* values of the other attribute columns of the first-loaded row with this
\* grouping value in column order, the counts of samples 0..k-1, the total.
C12_WriteContent ==
    (pc = "loaded" /\ op.name = "write") =>
        \A v \in ValidVariables : HasLineAt(count_out.text, v, LineOf(v))

(***************************************************************************)
(* The supervisor run_cmd (SpecRun).                                       *)
(***************************************************************************)
\* the texts written to the console for one stream of one child, in order
Echo(n, s) == SelectSeq(console, LAMBDA e : e.run = n /\ e.stream = s /\ ~e.end)

\* the invocation n of run_cmd has returned
Returned(n) == \E j \in DOMAIN results : results[j].run = n

\* what the child wrote as one line, without its line end
Content(line) == IF EndsWithNewline(line) THEN AllButLast(line.text) ELSE line.text

\* C13: stream order with passthrough.  In every state of every
\* interleaving of the two reader threads and the writer thread, the texts
\* written to the console for one stream of a child are the first lines the
\* child wrote to that stream, in the order written; every such text is
\* followed on the console by its own line end before any other write, so
\* that only whole lines interleave; and the stream's capture list is the
\* first lines written, in the order written.
C13_StreamOrder ==
    /\ \A n \in Runs, s \in Streams :
          LET wrote == child[n].wrote[s]
              echo == Echo(n, s)
              list == captured[n][s]
          IN  /\ Len(echo) <= Len(wrote)
              /\ \A j \in DOMAIN echo :
                    /\ echo[j].k = j
                    /\ echo[j].text = Content(wrote[j])
              /\ Len(list) <= Len(wrote)
              /\ \A j \in DOMAIN list : list[j] = wrote[j]
    /\ \A i \in DOMAIN console :
          (console[i].stream \in Streams /\ ~console[i].end /\ i < Len(console)) =>
              console[i + 1] = EndOf(console[i])

\* the text run_cmd returns for lines: joined with ' ' with passthrough, as
\* read from the pipe without
Captured(lines, passthrough) == Join(lines, IF passthrough THEN <<" ">> ELSE <<>>)

\* C14: return value.  When run_cmd has returned, the child has exited,
\* both streams have been read to their end, the returned texts hold every
\* line the child wrote to stdout and to stderr, and the returned code is
\* the child's exit code (a non-zero code is returned like any other).
C14_ReturnValue ==
    \A j \in DOMAIN results :
        LET r == results[j]
            n == r.run
        IN  /\ child[n].state = "exited"
            /\ pipes[n].out = <<>> /\ pipes[n].err = <<>>
            /\ r.passthrough => tasks[n].out = "done" /\ tasks[n].err = "done"
            /\ r.outs = Captured(child[n].wrote.out, r.passthrough)
            /\ r.errs = Captured(child[n].wrote.err, r.passthrough)
            /\ r.rc = child[n].returncode

\* run_cmd has returned a non-zero exit code with two lines of stdout and a
\* line of stderr, and the program goes on
C14_Witness ==
    \E j \in DOMAIN results :
        /\ results[j].rc = 1 /\ results[j].passthrough
        /\ Len(child[results[j].run].wrote.out) = 2
        /\ Len(child[results[j].run].wrote.err) = 1
        /\ terminated = ""

\* C15: process registry.  Every child that has been spawned and whose
\* run_cmd has not returned is in the registry; once the program has
\* terminated (at its end, by an exception or by a signal, at any point of
\* a run_cmd), no child is running.
C15_Registry ==
    /\ \A n \in Runs : (child[n].state # "none" /\ ~Returned(n)) => InRegistry(n)
    /\ terminated # "" => \A n \in Runs : child[n].state # "running"

\* C19: task lifetime with passthrough.  When run_cmd has returned, the two
\* reader threads and the writer thread of that invocation have ended and
\* every line put on the queue has been echoed.
C19_TaskLifetime ==
    \A j \in DOMAIN results :
        LET n == results[j].run
        IN  results[j].passthrough =>
                /\ tasks[n].out = "done" /\ tasks[n].err = "done"
                /\ tasks[n].writer = "done"
                /\ \A s \in Streams : Len(Echo(n, s)) = Len(captured[n][s])

(***************************************************************************)
(* The pipeline (SpecPipeline).                                            *)
(***************************************************************************)
BuildCommands == SelectSeq(engine.commands, LAMBDA c : c.tool \in {"bowtie-build", "bowtie2-build"})

\* C16: index built once.  Over a run, the index-build command is given to
\* run_cmd at most once, however many samples go through from_fastq or
\* from_raw_fastq.
C16_IndexBuiltOnce == Len(BuildCommands) <= 1

\* the step the main thread is about to take needs a file that is not there
MissingInput ==
    \/ pc = "p_driver" /\ engine.options.sam_files /\ ~IsFile(engine, "sam")
          /\ ~engine.options.fastq_files
    \/ pc = "p_from_sam" /\ ~IsFile(engine, "sam")
    \/ pc \in {"p_from_fastq", "p_from_raw_fastq"}
          /\ (~IsFile(engine, "fastq") \/ (engine.paired_file # None /\ ~IsFile(engine, "pair")))
    \/ pc = "p_trim_pair" /\ engine.paired /\ ~IsFile(engine, "pair")
    \/ pc = "p_index_file" /\ ~IsFile(engine, "fasta")

\* a step of the main thread (not of the environment or of a writer thread)
MainStep == op'.name \notin {"remove", "echo", "echo_end", "exit"}

\* the run is ending: an exception has been raised, or the message of a
\* missing file is being printed and sys.exit(1) follows
Aborting ==
    \/ failed \in {"SystemExit", "TypeError"}
    \/ failed = "" /\ pc = "p_newline" /\ engine.after.exc = "SystemExit"

\* C20: fatal abort.  A step of the program that needs a missing file (the
\* SAM file in from_sam, the fastq file or its pair in from_fastq,
\* from_raw_fastq and __quality_trimming, the reference file in
\* __mapping_index) ends the run: no command is given to run_cmd, the
\* sample is not counted, no count file has been or is written, and after
\* the exception nothing more is run, counted or written.
C20_FatalAbort ==
    [][/\ (failed = "" /\ MissingInput /\ MainStep) =>
             /\ Aborting'
             /\ engine'.commands = engine.commands
             /\ sample' = sample
             /\ ~count_out.exists /\ count_out' = count_out /\ sirna_out' = sirna_out
       /\ Aborting =>
             /\ Aborting'
             /\ failed # "" => (failed' = failed /\ pc' = pc)
             /\ engine'.commands = engine.commands
             /\ sample' = sample /\ rosette' = rosette
             /\ count_out' = count_out /\ sirna_out' = sirna_out]_vars

\* the reference file was found missing when the second sample's index was
\* to be built, after the commands of the first sample, and the program has
\* ended
C20_Witness ==
    /\ failed = "SystemExit" /\ pc = "p_index_file" /\ sample = 1
    /\ engine.commands # <<>> /\ ~IsFile(engine, "fasta")
    /\ ~count_out.exists
    /\ terminated = "exception"

(***************************************************************************)
(* The order of the run, and the lines that qualify (SpecDriver).          *)
(***************************************************************************)
PurgeStep == purges' # purges

WriteStep == count_out' # count_out

\* C17 as stated: run-level ordering.  Purge happens after the last sample
\* has been counted and before Write; Write happens once, after every
\* sample has been counted.
C17_PurgeAfterCounting ==
    [][/\ PurgeStep => (sample = args.sample_number /\ ~count_out.exists)
       /\ WriteStep => (sample = args.sample_number /\ ~count_out.exists)]_vars

\* C17 amended: Purge happens once, when the Count object is constructed,
\* before the first sample is counted and so before Write; Write happens
\* once, after every sample has been counted, and ends the run.
C17_PurgeBeforeCounting ==
    [][/\ PurgeStep => /\ purges = 0 /\ pc = "d_count"
                       /\ sample = 0 /\ lines_read = 0 /\ ~count_out.exists
       /\ WriteStep => /\ pc = "d_write" /\ pc' = "done"
                       /\ sample = args.sample_number /\ purges = 1
                       /\ ~count_out.exists
       /\ pc' = "done" => WriteStep]_vars

\* a run of two samples with a line counted has purged and written
C17_Witness ==
    /\ pc = "done" /\ failed = "" /\ count_out.exists
    /\ purges = 1 /\ args.sample_number = 2 /\ sample = 2 /\ lines_read > 0

\* the line qualifies: more than 4 fields, field 3 is not '*', field 5 is
\* at most the maximum
QualifiesAsStated(c, line) ==
    /\ line.nfields > 4 /\ Name(line.rname) # "*"
    /\ PyInt(line.mapq) <= c.max_mapq

\* C18: qualification.  For every line of the SAM file that is not a header
\* line (and whose field 5, if it has one, is a number), with or without
\* the siRNA file: a call of count or count_si is made if the line
\* qualifies and none otherwise, and no exception is raised.
C18_Qualification ==
    [][(/\ LineStep /\ last'.line.first # "@"
        /\ last'.line.nfields > 4 => IsInt(last'.line.mapq)) =>
          /\ failed' = ""
          /\ QualifiesAsStated(counting, last'.line) <=> last'.call # ""]_vars

(***************************************************************************)
(* The validity flags between load and purge (SpecTable).                  *)
(***************************************************************************)
GroupingVariables(r) == DOMAIN r.TE_count_valid

\* a step of purge on the loaded table
PurgeTaken == purges' = purges + 1

\* C21 as stated: initial validity.  After the load and before any purge
\* every grouping variable's flag is false, a flag changes only in a step of
\* purge, and a write with no purge before it emits nothing.
C21_InitiallyInvalid ==
    [][/\ (pc' = "loaded" /\ purges' = 0) =>
              \A v \in GroupingVariables(rosette') : ~rosette'.TE_count_valid[v]
       /\ (pc = "loaded" /\ rosette'.TE_count_valid # rosette.TE_count_valid) => PurgeTaken
       /\ (op'.name = "write" /\ purges' = 0) => count_out'.text = <<>>]_vars

(***************************************************************************)
(* Totals and sample vectors under the driver (SpecDriver).                *)
(***************************************************************************)
\* the sum of the elements i .. of a list
RECURSIVE SumFrom(_, _)
SumFrom(vec, i) == IF i \notin DOMAIN vec THEN 0 ELSE vec[i] + SumFrom(vec, i + 1)

\* the position of the newline that ends the line beginning at p
LineEnd(text, p) ==
    CHOOSE q \in p .. Len(text) : text[q] = "\n" /\ \A j \in p .. q - 1 : text[j] # "\n"

\* the line beginning at p ends with k counts and their sum
EndsWithSum(text, p, k) ==
    LET q == LineEnd(text, p)
    IN  /\ q - 1 - k >= p
        /\ \E c \in [0 .. k - 1 -> 0 .. MaxSamLines] :
              /\ \A i \in 0 .. k - 1 : text[q - 1 - k + i] = Str(c[i]) \o " "
              /\ text[q - 1] = Str(SumFrom(c, 0))

\* every line of an output file ends with k counts and their sum
LinesEndWithSum(text, k) == \A p \in LinePositions(text) : EndsWithSum(text, p, k)

\* C22: under the driver (one reset_count at the start of each of the k
\* samples, every count and count_si after the first), the cursor is within
\* 0..k-1 whenever a line has been counted, every grouping variable's total
\* is the sum of its vector of sample counts (likewise for the siRNA pair),
\* and in the files the driver writes the last column of every line is the
\* sum of the sample columns.
C22_TotalIsSum ==
    /\ (pc = "d_lines" /\ last.call # "") =>
          (rosette.current_sample >= 0 /\ rosette.current_sample < rosette.sample_number)
    /\ \A v \in DOMAIN rosette.TE_count_total :
          rosette.TE_count_total[v] = SumFrom(rosette.TE_count[v], 0)
    /\ \A v \in DOMAIN rosette.sirna_count_total :
          rosette.sirna_count_total[v] = SumFrom(rosette.sirna_count[v], 0)
    /\ (pc = "done" /\ failed = "") =>
          /\ LinesEndWithSum(count_out.text, rosette.sample_number)
          /\ rosette.count_sirna => LinesEndWithSum(sirna_out.text, rosette.sample_number)

\* two samples with one line counted in each have been written: the line of
\* the variable ends with 1, 1 and 2
C22_Witness ==
    /\ pc = "done" /\ failed = "" /\ rosette.sample_number = 2
    /\ \E v \in DOMAIN rosette.TE_count_total :
          /\ rosette.TE_count[v][0] = 1 /\ rosette.TE_count[v][1] = 1
          /\ rosette.TE_count_total[v] = 2
          /\ HasLine(count_out.text, v)

(***************************************************************************)
(* The sentinel of the queue and the end of the writer (SpecRun).          *)
(***************************************************************************)
\* the sentinel is in the queue of invocation n
SentinelQueued(n) == \E j \in DOMAIN queues[n] : queues[n][j].none

\* the sentinel of invocation n is queued after both readers have ended, once,
\* and nothing is queued behind it
SentinelLast(n) ==
    \A j \in DOMAIN queues[n] :
        queues[n][j].none =>
            /\ j = Len(queues[n])
            /\ tasks[n].out = "done" /\ tasks[n].err = "done"

\* the writer of invocation n has echoed every line the child wrote and has ended
Drained(n) ==
    /\ tasks[n].writer = "done"
    /\ \A s \in Streams : Len(Echo(n, s)) = Len(child[n].wrote[s])

\* C23: sentinel and drain.  With passthrough the sentinel is put on the
\* queue once, after both readers have ended, and no line is queued behind
\* it; no line is echoed twice or out of order; and when the program has
\* run to its end, the writer of every invocation that returned has echoed
\* every line and has ended (no line is lost).
C23_SentinelAndDrain ==
    /\ \A n \in Runs : SentinelLast(n)
    /\ \A n \in Runs, s \in Streams : \A j \in DOMAIN Echo(n, s) : Echo(n, s)[j].k = j
    /\ terminated = "exit" =>
          \A j \in DOMAIN results :
              results[j].passthrough => Drained(results[j].run)

====
